---- MODULE Spec2Model ----
(***************************************************************************)
(* A model of the trading decision core of my_trade_bot: the Risk Manager  *)
(* (app/core/risk_manager.py), the confluence step of the Signal Engine    *)
(* (app/core/signal_engine.py), the Order Executor                         *)
(* (app/core/order_executor.py) and the two places that drive an execution *)
(* attempt (the signal loop of app/main.py, the /execute route of          *)
(* app/api/routes_trade.py).                                               *)
(*                                                                         *)
(* Units.  Money (equity, balance, pnl) is in whole account-currency       *)
(* units.  Lots are in thousandths of a lot (0.01 lot = 10).  Percentages  *)
(* are whole percents.  Decimal arithmetic of the source is exact on these *)
(* inputs, so it is modelled by integer arithmetic on the scaled values.   *)
(* An optional value (Python None or a value) is the empty tuple <<>> or   *)
(* the one-element tuple <<v>>.                                            *)
(***************************************************************************)
EXTENDS Integers, Sequences, FiniteSets, TLC

VARIABLES
    is_paused,      \* RiskManager.is_paused
    daily_pnl,      \* RiskManager.daily_pnl
    start_balance,  \* RiskManager._start_balance, <<>> until latched
    synced_balance, \* history: the balance of the last sync_from_account call, <<>> before the first
    settings,       \* the configuration the process was started with
    strategy_enabled, \* SignalEngine._strategy_enabled, by position in StrategyNames
    strategy_params, \* SignalEngine._strategy_params, by position in StrategyNames; <<>> when unset
    strategy_cache, \* the params of the cached strategy objects (SignalEngine._strategies) of one symbol
    signal_history, \* SignalEngine._signal_history, oldest entry first
    op,             \* the operation that ran last
    args,           \* its inputs and the state it started from
    ret,            \* what it returned / did
    event_loop,     \* the coroutine that holds the event-loop thread, <<>> when the loop is free
    signal_task,    \* the task running _signal_loop: where it is and its locals
    account_task,   \* the task running _account_loop
    execute_task,   \* a POST /api/v1/trade/execute request being handled
    forecast_task,  \* a GET /api/v1/signals/forecast request being handled
    workers,        \* the threads started by asyncio.to_thread that have not finished
    shut_down,      \* lifespan has run its shutdown code
    bot_status,     \* BotState._status: running, paused, armed
    loop_orders     \* market orders _signal_loop has sent, by position in SymbolList

\* the asyncio runtime: the event loop, its coroutines and the worker threads
runtime ==
    <<event_loop, signal_task, account_task, execute_task, forecast_task, workers, shut_down,
      bot_status, loop_orders>>

vars ==
    <<is_paused, daily_pnl, start_balance, synced_balance, settings, strategy_enabled,
      strategy_params, strategy_cache, signal_history, op, args, ret, runtime>>

Some(x) == <<x>>
NoneVal == <<>>
Min(a, b) == IF a <= b THEN a ELSE b
Max(a, b) == IF a >= b THEN a ELSE b

(***************************************************************************)
(* Settings (app/config.py defaults)                                       *)
(***************************************************************************)
MAX_RISK_PER_TRADE_PERCENT == 1
MAX_DAILY_LOSS_PERCENT == 5
MAX_OPEN_POSITIONS == 6
FREE_MARGIN_MIN_PERCENT == 200
MAX_LOT_SIZE == 10

\* MAX_LOT_SIZE, settings.symbol_min_lots.get(<the instrument>) and
\* MAX_RISK_PER_TRADE_PERCENT as configured by default
DefaultSettings ==
    [MAX_LOT_SIZE |-> MAX_LOT_SIZE, min_override |-> NoneVal,
     MAX_RISK_PER_TRADE_PERCENT |-> MAX_RISK_PER_TRADE_PERCENT]

Symbols == {"BTCUSDm", "XAUUSDm", "XAGUSDm"}
Directions == {"BUY", "SELL"}

(***************************************************************************)
(* Bounds of the risk-manager model                                        *)
(***************************************************************************)
MaxAbsPnl == 100        \* update_daily_pnl is explored while |daily_pnl| <= MaxAbsPnl
MaxPositions == 7       \* largest open-position count the broker reports

\* Equity passed to approve_trade.  With MAX_DAILY_LOSS_PERCENT = 5 the loss
\* limits are 0, -49, -50 and -51, so daily_pnl = -50 is below, at and above a limit.
Equities == {0, 980, 1000, 1020}
Balances == {950, 1000}
PnlSteps == {-50, 50}

(***************************************************************************)
(* What the broker terminal answers during one approve_trade call          *)
(***************************************************************************)
\* account_info() as read by _check_free_margin: margin and free margin
MarginInfos == { [margin |-> 0, free_margin |-> 0],
                 [margin |-> 100, free_margin |-> 199],
                 [margin |-> 100, free_margin |-> 200] }

\* other_open is the number of positions open in the correlated symbol, and
\* other what positions_get(symbol=<correlated symbol>) answers: that number,
\* or nothing when the query fails
BrokerViews ==
    { b \in [ connected : BOOLEAN,                           \* ensure_connected()
              positions : {NoneVal} \cup {Some(n) : n \in {0, MAX_OPEN_POSITIONS - 1, MAX_OPEN_POSITIONS, MaxPositions}},
              other_open : {1, 2},
              other     : {NoneVal, Some(1), Some(2)},
              account   : {NoneVal} \cup {Some(m) : m \in MarginInfos} ] :
        b.other \in {NoneVal, Some(b.other_open)} }

(***************************************************************************)
(* RiskManager                                                             *)
(***************************************************************************)
\* _count_symbol_positions: len(positions) or 0 when the query returns None
count_symbol_positions(b) == IF b.other = NoneVal THEN 0 ELSE b.other[1]

\* _check_correlation: gold and silver cap each other at fewer than 2 positions
check_correlation(symbol, b) ==
    IF symbol = "XAUUSDm" THEN count_symbol_positions(b) < 2
    ELSE IF symbol = "XAGUSDm" THEN count_symbol_positions(b) < 2
    ELSE TRUE

\* _check_free_margin
check_free_margin(b) ==
    IF b.account = NoneVal THEN FALSE
    ELSE LET info == b.account[1] IN
         IF info.margin <= 0 THEN TRUE
         ELSE info.free_margin * 100 >= FREE_MARGIN_MIN_PERCENT * info.margin

\* positions is not None and len(positions) >= self.max_open_positions
max_positions_reached(b) ==
    b.positions # NoneVal /\ b.positions[1] >= MAX_OPEN_POSITIONS

\* variant of daily_loss_hit: the limit itself is not yet a breach (< for <=)
daily_loss_hit_strict(pnl, equity) ==
    pnl * 100 < -(equity * MAX_DAILY_LOSS_PERCENT)

\* self.daily_pnl <= Decimal(equity) * self.max_daily_loss * Decimal("-1")
daily_loss_hit(pnl, equity) ==
    pnl * 100 <= -(equity * MAX_DAILY_LOSS_PERCENT)

RiskDecision(approved, reason, paused, evaluated) ==
    [approved |-> approved, reason |-> reason, is_paused |-> paused, evaluated |-> evaluated]

\* variant of evaluate_rules: the daily-loss rule is tried before the
\* open-position rule
evaluate_rules_loss_first(pnl, symbol, equity, b) ==
    IF ~b.connected
    THEN RiskDecision(FALSE, "MT5 not connected", FALSE, <<"pause", "connectivity">>)
    ELSE IF daily_loss_hit(pnl, equity)
    THEN RiskDecision(FALSE, "Daily loss limit hit", TRUE,
                      <<"pause", "connectivity", "daily_loss">>)
    ELSE IF max_positions_reached(b)
    THEN RiskDecision(FALSE, "Max open positions reached", FALSE,
                      <<"pause", "connectivity", "daily_loss", "positions">>)
    ELSE IF ~check_correlation(symbol, b)
    THEN RiskDecision(FALSE, "Correlated exposure limit", FALSE,
                      <<"pause", "connectivity", "positions", "daily_loss", "correlation">>)
    ELSE IF ~check_free_margin(b)
    THEN RiskDecision(FALSE, "Free margin below threshold", FALSE,
                      <<"pause", "connectivity", "positions", "daily_loss", "correlation",
                        "free_margin">>)
    ELSE RiskDecision(TRUE, "Approved", FALSE,
                      <<"pause", "connectivity", "positions", "daily_loss", "correlation",
                        "free_margin">>)

\* approve_trade once the pause flag is known to be clear (lines 38-56): the
\* decision, the value of is_paused it leaves, and the rules evaluated, in order
evaluate_rules(pnl, symbol, equity, b) ==
    IF ~b.connected
    THEN RiskDecision(FALSE, "MT5 not connected", FALSE, <<"pause", "connectivity">>)
    ELSE IF max_positions_reached(b)
    THEN RiskDecision(FALSE, "Max open positions reached", FALSE,
                      <<"pause", "connectivity", "positions">>)
    ELSE IF daily_loss_hit(pnl, equity)
    THEN RiskDecision(FALSE, "Daily loss limit hit", TRUE,
                      <<"pause", "connectivity", "positions", "daily_loss">>)
    ELSE IF ~check_correlation(symbol, b)
    THEN RiskDecision(FALSE, "Correlated exposure limit", FALSE,
                      <<"pause", "connectivity", "positions", "daily_loss", "correlation">>)
    ELSE IF ~check_free_margin(b)
    THEN RiskDecision(FALSE, "Free margin below threshold", FALSE,
                      <<"pause", "connectivity", "positions", "daily_loss", "correlation",
                        "free_margin">>)
    ELSE RiskDecision(TRUE, "Approved", FALSE,
                      <<"pause", "connectivity", "positions", "daily_loss", "correlation",
                        "free_margin">>)

\* variant of approve_trade: the pause is lifted once daily_pnl is back above the limit
approve_trade_autoresume(paused, pnl, symbol, equity, b) ==
    IF paused /\ daily_loss_hit(pnl, equity)
    THEN RiskDecision(FALSE, "Trading paused by risk manager", paused, <<"pause">>)
    ELSE evaluate_rules(pnl, symbol, equity, b)

\* approve_trade
approve_trade(paused, pnl, symbol, equity, b) ==
    IF paused
    THEN RiskDecision(FALSE, "Trading paused by risk manager", paused, <<"pause">>)
    ELSE evaluate_rules(pnl, symbol, equity, b)

\* variant of sync_start_balance: the baseline follows every call
sync_start_balance_relatch(start, balance) == Some(balance)

\* sync_from_account: the baseline after the call
sync_start_balance(start, balance) == IF start = NoneVal THEN Some(balance) ELSE start

\* variant of sync_daily_pnl: the first call measures against a zero baseline
sync_daily_pnl_before_latch(start, balance) ==
    IF start = NoneVal THEN balance ELSE balance - start[1]

\* sync_from_account: the recomputed daily_pnl
sync_daily_pnl(start, balance) == balance - sync_start_balance(start, balance)[1]

\* update_daily_pnl
update_daily_pnl(pnl, delta) == pnl + delta

(***************************************************************************)
(* Instruments (mt5.symbol_info) and configuration read by the sizing and  *)
(* normalisation code.  cfg is [MAX_LOT_SIZE, min_override,                *)
(* MAX_RISK_PER_TRADE_PERCENT]: the configured global cap,                 *)
(* settings.symbol_min_lots.get(name) and the risk percentage the Risk     *)
(* Manager was constructed with.                                           *)
(***************************************************************************)
DEFAULT_VOLUME_STEP == 10      \* "symbol_info.volume_step or 0.01"

\* step = Decimal(str(symbol_info.volume_step or 0.01))
volume_step_of(info) == IF info.volume_step = 0 THEN DEFAULT_VOLUME_STEP ELSE info.volume_step

\* variant of quantize_down: rounds up to the next step multiple
quantize_up(num, den, step) == ((num + den * step - 1) \div (den * step)) * step

\* (lot / step).quantize(Decimal("1"), rounding=ROUND_DOWN) * step, for lot >= 0
quantize_down(num, den, step) == ((num \div (den * step))) * step

\* _regime_multiplier, in quarters: 0.75 HIGH_VOL, 0.5 EXTREME, 1.0 otherwise
regime_multiplier(regime) ==
    IF regime = "HIGH_VOL" THEN 3
    ELSE IF regime = "EXTREME" THEN 2
    ELSE 4

\* lot (in thousandths) before quantisation is raw_lot_num / raw_lot_den:
\* risk_amount / (sl_distance * tick_value / tick_size) * multiplier
raw_lot_num(cfg, equity, regime, info) ==
    1000 * equity * cfg.MAX_RISK_PER_TRADE_PERCENT * regime_multiplier(regime) * info.trade_tick_size
raw_lot_den(sl_points, info) == 400 * sl_points * info.trade_tick_value

\* lot = max(min_lot, min(lot, max_lot)) with the override and the global cap
clamp_lot(cfg, info, lot) ==
    LET min_lot == IF cfg.min_override # NoneVal THEN cfg.min_override[1] ELSE info.volume_min
        max_lot == Min(info.volume_max, cfg.MAX_LOT_SIZE)
    IN  Max(min_lot, Min(lot, max_lot))

\* variant of calculate_lot_size: the risk amount is multiplied by the stop
\* distance where the source divides by it
calculate_lot_size_per_point(cfg, equity, sl_points, regime, si) ==
    IF sl_points <= 0 THEN 0
    ELSE IF si = NoneVal THEN 0
    ELSE LET info == si[1] IN
         IF info.trade_tick_value <= 0 \/ info.trade_tick_size <= 0
         THEN info.volume_min
         ELSE clamp_lot(cfg, info,
                        quantize_down((raw_lot_num(cfg, equity, regime, info) \div 100) * sl_points,
                                      raw_lot_den(1, info) * 10,
                                      volume_step_of(info)))

\* calculate_lot_size; si is mt5.symbol_info(symbol), <<>> when the symbol is unknown
calculate_lot_size(cfg, equity, sl_points, regime, si) ==
    IF sl_points <= 0 THEN 0
    ELSE IF si = NoneVal THEN 0
    ELSE LET info == si[1] IN
         IF info.trade_tick_value <= 0 \/ info.trade_tick_size <= 0
         THEN info.volume_min
         ELSE clamp_lot(cfg, info,
                        quantize_down(raw_lot_num(cfg, equity, regime, info),
                                      raw_lot_den(sl_points, info),
                                      volume_step_of(info)))

(***************************************************************************)
(* OrderExecutor                                                           *)
(***************************************************************************)
\* MetaTrader 5 trade server return codes named by RETCODE_MAP
TRADE_RETCODE_DONE == 10009
TRADE_RETCODE_REQUOTE == 10004
TRADE_RETCODE_REJECT == 10006
TRADE_RETCODE_CANCEL == 10007
TRADE_RETCODE_PLACED == 10008
TRADE_RETCODE_NO_MONEY == 10019
TRADE_RETCODE_PRICE_OFF == 10021
TRADE_RETCODE_INVALID == 10013
TRADE_RETCODE_INVALID_VOLUME == 10014
TRADE_RETCODE_INVALID_PRICE == 10015
TRADE_RETCODE_INVALID_STOPS == 10016
TRADE_RETCODE_MARKET_CLOSED == 10018
TRADE_RETCODE_CONNECTION == 10031
TRADE_RETCODE_TIMEOUT == 10012
RETCODE_10027 == 10027

\* RETCODE_MAP.get(code, default)
retcode_message(code, default) ==
    CASE code = TRADE_RETCODE_DONE -> "Order executed successfully"
      [] code = TRADE_RETCODE_REQUOTE -> "Requote received"
      [] code = TRADE_RETCODE_REJECT -> "Order rejected by server"
      [] code = TRADE_RETCODE_CANCEL -> "Order cancelled"
      [] code = TRADE_RETCODE_PLACED -> "Order placed (pending)"
      [] code = TRADE_RETCODE_NO_MONEY -> "Insufficient margin"
      [] code = TRADE_RETCODE_PRICE_OFF -> "Price changed, no requote"
      [] code = TRADE_RETCODE_INVALID -> "Invalid request"
      [] code = TRADE_RETCODE_INVALID_VOLUME -> "Invalid volume"
      [] code = TRADE_RETCODE_INVALID_PRICE -> "Invalid price"
      [] code = TRADE_RETCODE_INVALID_STOPS -> "Invalid SL/TP"
      [] code = TRADE_RETCODE_MARKET_CLOSED -> "Market closed"
      [] code = TRADE_RETCODE_CONNECTION -> "No connection"
      [] code = TRADE_RETCODE_TIMEOUT -> "Request timeout"
      [] code = RETCODE_10027 -> "Invalid volume"
      [] OTHER -> default

\* _normalize_volume: clamp to [min, max(min, min(max, cap))], then floor to the step
normalize_volume(cfg, info, lot_size) ==
    LET min_lot == info.volume_min
        capped  == Min(info.volume_max, cfg.MAX_LOT_SIZE)
        max_lot == IF capped < min_lot THEN min_lot ELSE capped
        lot     == Max(min_lot, Min(lot_size, max_lot))
        step    == volume_step_of(info)
    IN  (lot \div step) * step

\* the pre-check lets the request through: "check is not None and
\* check.retcode != mt5.TRADE_RETCODE_DONE" is false
check_passes(check) == ~(check # NoneVal /\ check[1] # TRADE_RETCODE_DONE)

OrderResult(success, message, retcode, calls, request) ==
    [success |-> success, message |-> message, retcode |-> retcode,
     calls |-> calls, request |-> request]

\* variant of interpret_send: a code missing from the table is reported with
\* the done message
interpret_send_optimistic(send, calls, request) ==
    IF send = NoneVal THEN OrderResult(FALSE, "No result from MT5", NoneVal, calls, request)
    ELSE OrderResult(send[1] = TRADE_RETCODE_DONE,
                     retcode_message(send[1], "Order executed successfully"), send, calls, request)

\* the interpretation of the order_send result in execute_market_order,
\* close_position and modify_position: success, message and details.retcode
interpret_send(send, calls, request) ==
    IF send = NoneVal THEN OrderResult(FALSE, "No result from MT5", NoneVal, calls, request)
    ELSE OrderResult(send[1] = TRADE_RETCODE_DONE,
                     retcode_message(send[1], "Unknown retcode"), send, calls, request)

\* variant of execute_market_order: the tick is fetched before the
\* instrument's trade permission and the lot are looked at
execute_market_order_tick_first(cfg, env, symbol, direction, lot_size) ==
    IF ~env.connected THEN OrderResult(FALSE, "MT5 not connected", NoneVal, <<>>, NoneVal)
    ELSE IF env.symbol_info = NoneVal
    THEN OrderResult(FALSE, "Symbol not found", NoneVal, <<>>, NoneVal)
    ELSE LET info == env.symbol_info[1]
             sel  == IF info.visible THEN <<>> ELSE <<"symbol_select">>
             vol  == normalize_volume(cfg, info, lot_size)
             req  == Some([symbol |-> symbol, volume |-> vol, type |-> direction])
         IN  IF ~env.tick
             THEN OrderResult(FALSE, "No tick data", NoneVal, sel, NoneVal)
             ELSE IF ~info.trade_allowed
             THEN OrderResult(FALSE, "Symbol not tradeable", NoneVal, sel, NoneVal)
             ELSE IF vol <= 0
             THEN OrderResult(FALSE, "Invalid lot size", NoneVal, sel, NoneVal)
             ELSE IF ~check_passes(env.check)
             THEN OrderResult(FALSE, retcode_message(env.check[1], "Order check failed"), env.check,
                              sel \o <<"order_check">>, req)
             ELSE interpret_send(env.send, sel \o <<"order_check", "order_send">>, req)

\* execute_market_order.  env is what the terminal answers: connected,
\* symbol_info, tick, order_check and order_send results.  calls is the
\* sequence of terminal calls that change or submit something.
execute_market_order(cfg, env, symbol, direction, lot_size) ==
    IF ~env.connected THEN OrderResult(FALSE, "MT5 not connected", NoneVal, <<>>, NoneVal)
    ELSE IF env.symbol_info = NoneVal
    THEN OrderResult(FALSE, "Symbol not found", NoneVal, <<>>, NoneVal)
    ELSE LET info == env.symbol_info[1]
             sel  == IF info.visible THEN <<>> ELSE <<"symbol_select">>
             vol  == normalize_volume(cfg, info, lot_size)
             req  == Some([symbol |-> symbol, volume |-> vol, type |-> direction])
         IN  IF ~info.trade_allowed
             THEN OrderResult(FALSE, "Symbol not tradeable", NoneVal, sel, NoneVal)
             ELSE IF vol <= 0
             THEN OrderResult(FALSE, "Invalid lot size", NoneVal, sel, NoneVal)
             ELSE IF ~env.tick
             THEN OrderResult(FALSE, "No tick data", NoneVal, sel, NoneVal)
             ELSE IF ~check_passes(env.check)
             THEN OrderResult(FALSE, retcode_message(env.check[1], "Order check failed"), env.check,
                              sel \o <<"order_check">>, req)
             ELSE interpret_send(env.send, sel \o <<"order_check", "order_send">>, req)

\* modify_position(ticket, new_sl, new_tp)
modify_position(env, ticket) ==
    interpret_send(env.send, <<"order_send">>, Some([position |-> ticket]))

\* close_position(ticket, lot_size).  env.position is positions_get(ticket=...)
\* (the first position, <<>> when none is found); lot_size is <<>> when omitted.
close_position(env, ticket, lot_size) ==
    IF env.position = NoneVal
    THEN OrderResult(FALSE, "Position not found", NoneVal, <<>>, NoneVal)
    ELSE LET position  == env.position[1]
             volume    == IF lot_size = NoneVal \/ lot_size[1] = 0
                          THEN position.volume ELSE lot_size[1]
             direction == IF position.type = "BUY" THEN "SELL" ELSE "BUY"
         IN  IF ~env.tick
             THEN OrderResult(FALSE, "No tick data", NoneVal, <<>>, NoneVal)
             ELSE interpret_send(env.send, <<"order_send">>,
                                 Some([symbol |-> position.symbol, volume |-> volume,
                                       type |-> direction, position |-> ticket]))

\* positions_get(symbol=symbol) if symbol else positions_get(): the open
\* positions the query selects; symbol is <<>> when omitted
matching_positions(open, symbol) ==
    IF symbol = NoneVal \/ symbol[1] = "" THEN open
    ELSE SelectSeq(open, LAMBDA p : p.symbol = symbol[1])

\* close_all_positions(symbol).  env.listing is what positions_get answers
\* (<<>> when the query fails, else the positions); env.closes[i] is what the
\* terminal answers during the i-th close_position call: whether the
\* position is still found, whether there is a tick, the order_send result.
close_all_positions(env) ==
    IF env.listing = NoneVal \/ env.listing[1] = <<>> THEN <<>>
    ELSE LET positions == env.listing[1] IN
         [i \in 1..Len(positions) |->
             close_position([position |-> IF env.closes[i].found THEN Some(positions[i]) ELSE NoneVal,
                             tick |-> env.closes[i].tick, send |-> env.closes[i].send],
                            positions[i].ticket, NoneVal)]

(***************************************************************************)
(* SignalEngine: confluence and the filters of generate_signal             *)
(***************************************************************************)
\* the strategies in the order _get_strategies inserts them
StrategyNames == <<"ema_crossover", "rsi_divergence", "bollinger_squeeze", "vwap_scalper">>

\* variant of strategy_confidence: every strategy is as confident as ema_crossover
strategy_confidence_equal(name) == 70

\* the confidence each strategy gives a BUY/SELL signal, in hundredths
strategy_confidence(name) ==
    CASE name = "ema_crossover" -> 70
      [] name = "rsi_divergence" -> 68
      [] name = "bollinger_squeeze" -> 70
      [] name = "vwap_scalper" -> 66

Regimes == {"LOW_VOL", "NORMAL", "HIGH_VOL", "EXTREME"}

\* VolatilityEngine.get_strategy_weights, in hundredths
get_strategy_weights(regime) ==
    CASE regime = "LOW_VOL" ->
            [vwap_scalper |-> 35, rsi_divergence |-> 25, bollinger_squeeze |-> 20, ema_crossover |-> 20]
      [] regime = "HIGH_VOL" ->
            [ema_crossover |-> 30, bollinger_squeeze |-> 30, rsi_divergence |-> 20, vwap_scalper |-> 20]
      [] regime = "EXTREME" ->
            [ema_crossover |-> 20, bollinger_squeeze |-> 20, rsi_divergence |-> 10, vwap_scalper |-> 10]
      [] OTHER ->
            [ema_crossover |-> 30, bollinger_squeeze |-> 25, rsi_divergence |-> 20, vwap_scalper |-> 25]

\* the candidates of generate_signal: the non-neutral outputs of the enabled
\* strategies, in strategy order.  outputs[i] is strategy i's direction; the
\* entry, stop-loss and take-profit a strategy computes are named by its
\* position (prices |-> i).
RECURSIVE collect_signals(_, _, _, _)
collect_signals(symbol, outputs, enabled, i) ==
    IF i > Len(StrategyNames) THEN <<>>
    ELSE LET rest == collect_signals(symbol, outputs, enabled, i + 1) IN
         IF enabled[i] /\ outputs[i] # "NEUTRAL"
         THEN <<[symbol |-> symbol, strategy_name |-> StrategyNames[i], direction |-> outputs[i],
                 confidence |-> strategy_confidence(StrategyNames[i]), prices |-> i]>> \o rest
         ELSE rest

\* weights.get(s.strategy_name, 0.1), in hundredths
DEFAULT_WEIGHT == 10
weight_of(weights, name) == IF name \in DOMAIN weights THEN weights[name] ELSE DEFAULT_WEIGHT

RECURSIVE total_weight(_, _)
total_weight(signals, weights) ==
    IF signals = <<>> THEN 0
    ELSE weight_of(weights, signals[1].strategy_name) + total_weight(Tail(signals), weights)

RECURSIVE weighted_conf(_, _)
weighted_conf(signals, weights) ==
    IF signals = <<>> THEN 0
    ELSE signals[1].confidence * weight_of(weights, signals[1].strategy_name)
         + weighted_conf(Tail(signals), weights)

\* The source computes weighted_conf / total_weight in IEEE-754 doubles.  For
\* the built-in confidences and weight tables the double quotient compares
\* with 0.7 as the exact quotient does, with one exception: for ema_crossover
\* and bollinger_squeeze under the LOW_VOL weights, 0.7 * 0.2 + 0.7 * 0.2
\* evaluates to 0.27999999999999997 and the quotient by 0.4 to
\* 0.6999999999999998, below the exact value 0.7.
RECURSIVE names_of(_)
names_of(signals) ==
    IF signals = <<>> THEN {} ELSE {signals[1].strategy_name} \cup names_of(Tail(signals))
float_below_exact(signals, weights) ==
    /\ names_of(signals) = {"ema_crossover", "bollinger_squeeze"}
    /\ weight_of(weights, "ema_crossover") = 20
    /\ weight_of(weights, "bollinger_squeeze") = 20

\* max(signals, key=lambda s: s.confidence): the first signal of greatest confidence
RECURSIVE best_signal(_)
best_signal(signals) ==
    IF Len(signals) = 1 THEN signals[1]
    ELSE LET b == best_signal(Tail(signals)) IN
         IF signals[1].confidence >= b.confidence THEN signals[1] ELSE b

\* variant of aggregate: the plain mean of the supporters' confidences
aggregate_unweighted(direction, signals, weights) ==
    LET best == best_signal(signals) IN
    [direction |-> best.direction,
     conf_num |-> weighted_conf(signals, [n \in names_of(signals) |-> 1]),
     conf_den |-> Len(signals),
     float_below |-> FALSE,
     final |-> best]

\* _aggregate: direction of the best supporter, the confidence as the fraction
\* conf_num / conf_den (weighted_conf / total_weight) with float_below set when
\* the double result lies below it, and the best supporter
aggregate(direction, signals, weights) ==
    LET best == best_signal(signals) IN
    [direction |-> best.direction,
     conf_num |-> IF total_weight(signals, weights) > 0 THEN weighted_conf(signals, weights) ELSE 0,
     conf_den |-> IF total_weight(signals, weights) > 0 THEN total_weight(signals, weights) ELSE 1,
     float_below |-> total_weight(signals, weights) > 0 /\ float_below_exact(signals, weights),
     final |-> best]

is_buy(s) == s.direction = "BUY"
is_sell(s) == s.direction = "SELL"

\* variant of calculate_confluence: one supporter is enough
calculate_confluence_single(signals, weights) ==
    LET buy  == SelectSeq(signals, is_buy)
        sell == SelectSeq(signals, is_sell)
    IN  IF Len(buy) >= 1 /\ Len(buy) >= Len(sell) THEN aggregate("BUY", buy, weights)
        ELSE IF Len(sell) >= 1 /\ Len(sell) > Len(buy) THEN aggregate("SELL", sell, weights)
        ELSE [direction |-> "None", conf_num |-> 0, conf_den |-> 1, float_below |-> FALSE,
              final |-> signals[1]]

\* _calculate_confluence; direction "None" is Python's None
calculate_confluence(signals, weights) ==
    LET buy  == SelectSeq(signals, is_buy)
        sell == SelectSeq(signals, is_sell)
    IN  IF Len(buy) >= 2 /\ Len(buy) >= Len(sell) THEN aggregate("BUY", buy, weights)
        ELSE IF Len(sell) >= 2 /\ Len(sell) > Len(buy) THEN aggregate("SELL", sell, weights)
        ELSE [direction |-> "None", conf_num |-> 0, conf_den |-> 1, float_below |-> FALSE,
              final |-> signals[1]]

\* confidence < 0.7
MIN_CONFLUENCE_CONFIDENCE == 70
low_confluence(c) ==
    \/ c.conf_num < MIN_CONFLUENCE_CONFIDENCE * c.conf_den
    \/ c.conf_num = MIN_CONFLUENCE_CONFIDENCE * c.conf_den /\ c.float_below

\* variant of trend_alignment_ok: any number of M5 bars will do
trend_alignment_ok_any_length(direction, m5) ==
    \/ m5.fast > m5.slow /\ direction = "BUY"
    \/ m5.fast < m5.slow /\ direction = "SELL"

\* _trend_alignment_ok; m5 is the M5 frame: its length, and the last values of
\* EMA(8) and EMA(21) of its closes
MIN_TREND_BARS == 25
trend_alignment_ok(direction, m5) ==
    IF m5.len < MIN_TREND_BARS THEN FALSE
    ELSE \/ m5.fast > m5.slow /\ direction = "BUY"
         \/ m5.fast < m5.slow /\ direction = "SELL"

\* _spread_ok; tick is market_data.get_tick(symbol), <<>> when there is none
spread_ok(tick) ==
    IF tick = NoneVal THEN FALSE
    ELSE LET diff   == tick[1].ask - tick[1].bid
             spread == IF diff < 0 THEN -diff ELSE diff
         IN  spread > 0

\* the entry _record_signal builds for a signal; seq is not a field of the
\* source's entry: it numbers the _record_signal calls so that entries can be
\* told apart
history_entry(history, signal, regime) ==
    [seq |-> IF history = <<>> THEN 1 ELSE history[Len(history)].seq + 1,
     symbol |-> signal.symbol, direction |-> signal.direction,
     confidence |-> signal.confidence, strategy |-> signal.strategy_name,
     prices |-> signal.prices, regime |-> regime]

\* lst[-n:] of Python for n > 0: the last n elements, all of them when there are fewer
last_n(lst, n) == IF Len(lst) <= n THEN lst ELSE SubSeq(lst, Len(lst) - n + 1, Len(lst))

\* _record_signal: append, then keep self._signal_history[-500:]
HISTORY_LIMIT == 500
record_signal(history, signal, regime) ==
    last_n(Append(history, history_entry(history, signal, regime)), HISTORY_LIMIT)

\* lst[-limit:] of Python for any integer limit: lst[0:] for limit = 0 and
\* lst[|limit|:] for limit < 0
tail_slice(lst, limit) ==
    IF limit > 0 THEN last_n(lst, limit)
    ELSE IF -limit >= Len(lst) THEN <<>>
    ELSE SubSeq(lst, 1 - limit, Len(lst))

reversed(lst) == [i \in 1..Len(lst) |-> lst[Len(lst) + 1 - i]]

\* get_recent_signals(limit)
get_recent_signals(history, limit) == reversed(tail_slice(history, limit))

\* what generate_signal returns when it returns None; confluence is the
\* direction _calculate_confluence selected ("skipped" if it was not reached,
\* "None" if it selected none) and aggregated what _aggregate computed
NoSignal(history, confluence, aggregated) ==
    [emitted |-> FALSE, direction |-> "None", strategy_name |-> "None",
     confluence |-> confluence, aggregated |-> aggregated, signal |-> NoneVal,
     history |-> history]

\* variant of generate_signal: the signal is recorded as soon as the
\* confluence is strong enough, before the trend and spread filters
generate_signal_record_early(enabled, history, symbol, m) ==
    IF ~m.bars THEN NoSignal(history, "skipped", NoneVal)
    ELSE IF m.regime = "EXTREME" THEN NoSignal(history, "skipped", NoneVal)
    ELSE LET signals == collect_signals(symbol, m.outputs, enabled, 1) IN
         IF signals = <<>> THEN NoSignal(history, "skipped", NoneVal)
         ELSE LET c == calculate_confluence(signals, get_strategy_weights(m.regime))
                  final == [c.final EXCEPT !.confidence = <<c.conf_num, c.conf_den>>]
                  recorded == record_signal(history, final, m.regime)
              IN
              IF c.direction = "None" \/ low_confluence(c)
              THEN NoSignal(history, c.direction, IF c.direction = "None" THEN NoneVal ELSE Some(c))
              ELSE IF ~trend_alignment_ok(c.direction, m.m5)
              THEN NoSignal(recorded, c.direction, Some(c))
              ELSE IF ~spread_ok(m.tick)
              THEN NoSignal(recorded, c.direction, Some(c))
              ELSE [emitted |-> TRUE, direction |-> c.direction,
                    strategy_name |-> final.strategy_name, confluence |-> c.direction,
                    aggregated |-> Some(c), signal |-> Some(final),
                    history |-> recorded]

\* generate_signal.  m is the market as the call sees it: bars available, the
\* regime of the M1 bars, each strategy's output, the M5 frame, the tick.  The
\* result carries the returned signal (<<>> for None), whose confidence is the
\* pair <<numerator, denominator>>, and the history the call leaves.
generate_signal(enabled, history, symbol, m) ==
    IF ~m.bars THEN NoSignal(history, "skipped", NoneVal)
    ELSE IF m.regime = "EXTREME" THEN NoSignal(history, "skipped", NoneVal)
    ELSE LET signals == collect_signals(symbol, m.outputs, enabled, 1) IN
         IF signals = <<>> THEN NoSignal(history, "skipped", NoneVal)
         ELSE LET c == calculate_confluence(signals, get_strategy_weights(m.regime))
                  final == [c.final EXCEPT !.confidence = <<c.conf_num, c.conf_den>>]
              IN
              IF c.direction = "None" \/ low_confluence(c)
              THEN NoSignal(history, c.direction, IF c.direction = "None" THEN NoneVal ELSE Some(c))
              ELSE IF ~trend_alignment_ok(c.direction, m.m5)
              THEN NoSignal(history, c.direction, Some(c))
              ELSE IF ~spread_ok(m.tick)
              THEN NoSignal(history, c.direction, Some(c))
              ELSE [emitted |-> TRUE, direction |-> c.direction,
                    strategy_name |-> final.strategy_name, confluence |-> c.direction,
                    aggregated |-> Some(c), signal |-> Some(final),
                    history |-> record_signal(history, final, m.regime)]

\* the configuration generate_signal reads: settings.DEBUG_SIGNALS
SignalConfigs == [DEBUG_SIGNALS : BOOLEAN]

\* generate_signal under a configuration: DEBUG_SIGNALS only decides whether
\* a skipped evaluation (bars present, no signal returned) is logged
generate_signal_under(cfg, enabled, history, symbol, m) ==
    LET r == generate_signal(enabled, history, symbol, m) IN
    [result |-> r, logged_skip |-> cfg.DEBUG_SIGNALS /\ m.bars /\ ~r.emitted]

(***************************************************************************)
(* VolatilityEngine.detect_regime.  series is the ATR series after dropna, *)
(* oldest value first.  pct_rank is the mean of a boolean column, the      *)
(* double nearest to below/size; 0.25 and 0.75 are doubles, and the double *)
(* 0.95 is the one nearest to 19/20, which no other fraction below/size    *)
(* with size <= 200 rounds to, so the comparisons are those of the         *)
(* fractions.                                                              *)
(***************************************************************************)
LOOKBACK == 200

\* series.iloc[-lookback:] if len(series) >= lookback else series
regime_window(series, lookback) ==
    IF Len(series) >= lookback THEN tail_slice(series, lookback) ELSE series

\* (window <= recent).sum(): the values not above the latest one
count_not_above(window, recent) == Cardinality({i \in 1..Len(window) : window[i] <= recent})

\* (window < recent).sum(): the values strictly below the latest one
count_below(window, recent) == Cardinality({i \in 1..Len(window) : window[i] < recent})

\* variant of detect_regime whose buckets include their upper bound
detect_regime_lower_bucket(series, lookback) ==
    IF series = <<>> THEN "NORMAL"
    ELSE LET window == regime_window(series, lookback)
             below == count_below(window, series[Len(series)])
             size == Len(window)
         IN  IF 4 * below <= size THEN "LOW_VOL"
             ELSE IF 4 * below <= 3 * size THEN "NORMAL"
             ELSE IF 20 * below <= 19 * size THEN "HIGH_VOL"
             ELSE "EXTREME"

\* detect_regime(bars, lookback): pct_rank = below / size against 0.25, 0.75, 0.95
detect_regime(series, lookback) ==
    IF series = <<>> THEN "NORMAL"
    ELSE LET window == regime_window(series, lookback)
             below == count_below(window, series[Len(series)])
             size == Len(window)
         IN  IF 4 * below < size THEN "LOW_VOL"
             ELSE IF 4 * below < 3 * size THEN "NORMAL"
             ELSE IF 20 * below < 19 * size THEN "HIGH_VOL"
             ELSE "EXTREME"

(***************************************************************************)
(* Strategies: the stop-loss and take-profit of a signal.  Prices and the  *)
(* ATR are in points, the ATR multipliers in tenths, so distances and the  *)
(* prices of a result are in tenths of a point.                            *)
(***************************************************************************)
\* default_params of each strategy: atr_sl_mult and atr_tp_mult
default_params(name) ==
    CASE name = "ema_crossover" -> [atr_sl_mult |-> 15, atr_tp_mult |-> 25]
      [] name = "rsi_divergence" -> [atr_sl_mult |-> 12, atr_tp_mult |-> 18]
      [] name = "bollinger_squeeze" -> [atr_sl_mult |-> 14, atr_tp_mult |-> 20]
      [] name = "vwap_scalper" -> [atr_sl_mult |-> 12, atr_tp_mult |-> 15]

\* "if params:" is false for an unset override and for an empty dict
has_override(override) ==
    override # NoneVal /\ \E k \in DOMAIN override[1] : override[1][k] # NoneVal

\* {**strategy.params, **params}: a key of the override replaces the strategy's value
overlay(params, override) ==
    [k \in DOMAIN params |-> IF override[k] # NoneVal THEN override[k][1] ELSE params[k]]

\* the params strategy.generate_signal runs with (signal_engine.py 66-68)
effective_params(params, override) ==
    IF has_override(override) THEN overlay(params, override[1]) ELSE params

\* calculate_sl_tp (the same in the four strategies), in tenths of a point
calculate_sl_tp(params, direction, entry_price, atr_value) ==
    LET sl_distance == atr_value * params.atr_sl_mult
        tp_distance == atr_value * params.atr_tp_mult
    IN  IF direction = "BUY"
        THEN [stop_loss |-> entry_price * 10 - sl_distance, take_profit |-> entry_price * 10 + tp_distance]
        ELSE [stop_loss |-> entry_price * 10 + sl_distance, take_profit |-> entry_price * 10 - tp_distance]

\* _neutral(reason)
NeutralResult(name, symbol) ==
    [direction |-> "NEUTRAL", entry_price |-> 0, stop_loss |-> 0, take_profit |-> 0,
     strategy_name |-> name, symbol |-> symbol]

\* the end of a strategy's generate_signal once its entry rule gave a
\* direction: the VWAP scalper returns neutral for an ATR <= 0, the others
\* do not look at the ATR before using it
strategy_signal(name, params, symbol, direction, entry_price, atr_value) ==
    IF name = "vwap_scalper" /\ atr_value <= 0 THEN NeutralResult(name, symbol)
    ELSE LET p == calculate_sl_tp(params, direction, entry_price, atr_value) IN
         [direction |-> direction, entry_price |-> entry_price * 10,
          stop_loss |-> p.stop_loss, take_profit |-> p.take_profit,
          strategy_name |-> name, symbol |-> symbol]

(***************************************************************************)
(* Inputs explored                                                         *)
(***************************************************************************)
SlPoints == {0, 7, 300}
LotEquities == {0, 272, 1000}

\* configurations: the default cap of 0.01 lot, a cap off the step grid, a
\* generous cap; no minimum override, or one of 0.015 or 0.02 lot; a risk of
\* 1 or 2 percent of equity per trade
RiskPercents == {MAX_RISK_PER_TRADE_PERCENT, 2}
LotSettings ==
    [MAX_LOT_SIZE : {MAX_LOT_SIZE, 25, 1000}, min_override : {NoneVal, Some(15), Some(20)},
     MAX_RISK_PER_TRADE_PERCENT : RiskPercents]
OrderSettings ==
    [MAX_LOT_SIZE : {MAX_LOT_SIZE, 25, 1000}, min_override : {NoneVal},
     MAX_RISK_PER_TRADE_PERCENT : {MAX_RISK_PER_TRADE_PERCENT}]

\* mt5.symbol_info as read by calculate_lot_size
LotInstruments ==
    [volume_min : {10, 100}, volume_max : {20, 100000}, volume_step : {0, 10, 100},
     trade_tick_value : {0, 1, 10}, trade_tick_size : {1}]

\* mt5.symbol_info as read by execute_market_order
OrderInstruments ==
    [volume_min : {10, 15, 100}, volume_max : {20, 100000}, volume_step : {0, 10, 100},
     visible : BOOLEAN, trade_allowed : BOOLEAN]

\* a gold-like instrument, for the execution attempts of the loop and the route
StdInstrument ==
    [volume_min |-> 10, volume_max |-> 100000, volume_step |-> 10,
     trade_tick_value |-> 1, trade_tick_size |-> 1, visible |-> TRUE, trade_allowed |-> TRUE]

RequestedLots == {0, 5, 10, 15, 30, 2000}
CheckResults == {NoneVal, Some(0), Some(TRADE_RETCODE_DONE), Some(TRADE_RETCODE_INVALID_VOLUME)}
SendResults == {NoneVal, Some(TRADE_RETCODE_DONE), Some(TRADE_RETCODE_REJECT), Some(10099)}

\* every code of RETCODE_MAP, and two codes it does not list
TableCodes ==
    {TRADE_RETCODE_DONE, TRADE_RETCODE_REQUOTE, TRADE_RETCODE_REJECT, TRADE_RETCODE_CANCEL,
     TRADE_RETCODE_PLACED, TRADE_RETCODE_NO_MONEY, TRADE_RETCODE_PRICE_OFF,
     TRADE_RETCODE_INVALID, TRADE_RETCODE_INVALID_VOLUME, TRADE_RETCODE_INVALID_PRICE,
     TRADE_RETCODE_INVALID_STOPS, TRADE_RETCODE_MARKET_CLOSED, TRADE_RETCODE_CONNECTION,
     TRADE_RETCODE_TIMEOUT, RETCODE_10027}
AllSendResults == {NoneVal} \cup {Some(c) : c \in TableCodes \cup {0, 10099}}

\* positions_get(ticket=...) as read by close_position
OpenPositions == {NoneVal, Some([symbol |-> "XAUUSDm", volume |-> 20, type |-> "BUY"]),
                  Some([symbol |-> "XAGUSDm", volume |-> 10, type |-> "SELL"])}
CloseEnvs == [position : OpenPositions, tick : BOOLEAN, send : AllSendResults]
ModifyEnvs == [send : AllSendResults]
Tickets == {7}

\* the account's open positions, in the order the terminal lists them
Book == << [ticket |-> 7, symbol |-> "XAUUSDm", volume |-> 20, type |-> "BUY"],
           [ticket |-> 8, symbol |-> "XAGUSDm", volume |-> 10, type |-> "SELL"] >>
OpenBooks == {SubSeq(Book, 1, n) : n \in 0..Len(Book)}
CloseAnswers == [found : BOOLEAN, tick : BOOLEAN, send : SendResults]
\* close_all_positions: the filter, the open positions, the listing (failed,
\* or the positions the filter selects) and the answers to each close
CloseAllEnvs ==
    { e \in [symbol : {NoneVal, Some(""), Some("XAUUSDm")}, open : OpenBooks,
              listing : {NoneVal} \cup {Some(b) : b \in OpenBooks},
              closes : [1..Len(Book) -> CloseAnswers]] :
        e.listing \in {NoneVal, Some(matching_positions(e.open, e.symbol))} }

OrderEnvs(instruments) ==
    [connected : BOOLEAN, symbol_info : {NoneVal} \cup {Some(i) : i \in instruments},
     tick : BOOLEAN, check : CheckResults, send : SendResults]

\* what the terminal answers during an execution attempt of the loop or the route
AttemptViews ==
    [connected : BOOLEAN, positions : {Some(0)}, other_open : {1}, other : {Some(1)},
     account : {NoneVal, Some([margin |-> 0, free_margin |-> 0])}]
AttemptEnvs ==
    [connected : BOOLEAN, symbol_info : {NoneVal, Some(StdInstrument)}, tick : {TRUE},
     check : {NoneVal, Some(TRADE_RETCODE_DONE), Some(TRADE_RETCODE_INVALID_VOLUME)},
     send : {Some(TRADE_RETCODE_DONE), Some(TRADE_RETCODE_REJECT)}]
\* account_info() as read by the loop and the route: nothing, or the equity
AttemptAccounts == {NoneVal} \cup {Some(e) : e \in Equities \ {0}}

\* the M5 frame: 24 or 25 bars, fast EMA above, equal to or below the slow one
M5Frames == { [len |-> 25, fast |-> 101, slow |-> 100], [len |-> 25, fast |-> 100, slow |-> 100],
             [len |-> 25, fast |-> 100, slow |-> 101], [len |-> 24, fast |-> 101, slow |-> 100] }
\* get_tick: nothing, or bid and ask with a positive, zero or negative difference
Ticks == { NoneVal, Some([bid |-> 100, ask |-> 101]), Some([bid |-> 100, ask |-> 100]),
           Some([bid |-> 101, ask |-> 100]) }
NoBars == [bars |-> FALSE, regime |-> "NORMAL",
           outputs |-> [i \in 1..Len(StrategyNames) |-> "NEUTRAL"],
           m5 |-> [len |-> 25, fast |-> 100, slow |-> 100], tick |-> NoneVal]
Markets ==
    {NoBars} \cup
    [bars : {TRUE}, regime : Regimes,
     outputs : [1..Len(StrategyNames) -> {"BUY", "SELL", "NEUTRAL"}],
     m5 : M5Frames, tick : Ticks]
\* markets for long runs of the history: one in which ema_crossover and
\* bollinger_squeeze agree on BUY with the trend up, the same with a tick
\* that has no spread, and one without bars
HistoryMarkets ==
    { NoBars,
      [bars |-> TRUE, regime |-> "NORMAL",
       outputs |-> <<"BUY", "NEUTRAL", "BUY", "NEUTRAL">>,
       m5 |-> [len |-> 25, fast |-> 101, slow |-> 100], tick |-> Some([bid |-> 100, ask |-> 101])],
      [bars |-> TRUE, regime |-> "NORMAL",
       outputs |-> <<"BUY", "NEUTRAL", "BUY", "NEUTRAL">>,
       m5 |-> [len |-> 25, fast |-> 101, slow |-> 100], tick |-> Some([bid |-> 100, ask |-> 100])] }
RecentLimits == {0, 1, 2, 50, 200, 600}

\* bounds on the number of signals recorded in one behaviour
MaxSignals == 1          \* while exploring every market
MaxHistorySignals == 502 \* while exploring long histories

\* ATR series: lower values lower ones, other values equal to or above the
\* latest, in either order, then the latest value 2; short series up to the
\* bounds and long ones that exceed the lookback
MaxLower == 20
MaxOthers == 20
LongRun == LOOKBACK - 10
AtrSeriesOf(lower, others, other, lower_first) ==
    LET low == [i \in 1..lower |-> 1]
        rest == [i \in 1..others |-> other]
    IN  (IF lower_first THEN low \o rest ELSE rest \o low) \o <<2>>
AtrSeries ==
    {<<>>} \cup
    {AtrSeriesOf(lower, others, other, lower_first) :
        lower \in 0..MaxLower \cup {LongRun}, others \in 0..MaxOthers \cup {LongRun},
        other \in {2, 3}, lower_first \in BOOLEAN}

\* the last value of the ATR series, in points
AtrValues == {0, 2}
EntryPrices == {100}
\* dicts PATCH /api/v1/strategy/{name}/params can carry: each multiplier
\* absent or given, also as 0; all absent is the empty dict
ParamOverrides == [atr_sl_mult : {NoneVal, Some(0), Some(30)}, atr_tp_mult : {NoneVal, Some(0)}]

NoArgs == [none |-> TRUE]
NoRet == [none |-> TRUE]
NoOrder == OrderResult(FALSE, "not attempted", NoneVal, <<>>, NoneVal)

(***************************************************************************)
(* Operations.  op, args and ret are history variables: an operation runs  *)
(* from the idle state and leaves a record of its call; Idle drops the     *)
(* record before the next operation starts.                                *)
(***************************************************************************)
Idle ==
    /\ op # "idle"
    /\ op' = "idle"
    /\ args' = NoArgs
    /\ ret' = NoRet
    /\ UNCHANGED <<is_paused, daily_pnl, start_balance, synced_balance, settings, strategy_params, strategy_cache, strategy_enabled, signal_history, runtime>>

\* RiskManager.approve_trade(symbol, direction, equity); direction is not read
ApproveTrade ==
    /\ op = "idle"
    /\ \E symbol \in Symbols, equity \in Equities, b \in BrokerViews :
        LET d == approve_trade(is_paused, daily_pnl, symbol, equity, b) IN
        /\ is_paused' = d.is_paused
        /\ op' = "approve_trade"
        /\ args' = [symbol |-> symbol, equity |-> equity, b |-> b,
                    pre_paused |-> is_paused, pre_pnl |-> daily_pnl]
        /\ ret' = [approved |-> d.approved, reason |-> d.reason, evaluated |-> d.evaluated]
        /\ UNCHANGED <<daily_pnl, start_balance, synced_balance, settings, strategy_params, strategy_cache, strategy_enabled, signal_history, runtime>>

\* RiskManager.update_daily_pnl(pnl)
UpdateDailyPnl ==
    /\ op = "idle"
    /\ \E delta \in PnlSteps :
        /\ update_daily_pnl(daily_pnl, delta) \in -MaxAbsPnl..MaxAbsPnl
        /\ daily_pnl' = update_daily_pnl(daily_pnl, delta)
        /\ op' = "update_daily_pnl"
        /\ args' = [pnl |-> delta, pre_paused |-> is_paused, pre_pnl |-> daily_pnl]
        /\ ret' = NoRet
        /\ UNCHANGED <<is_paused, start_balance, synced_balance, settings, strategy_params, strategy_cache, strategy_enabled, signal_history, runtime>>

\* one iteration of _account_loop with an account snapshot:
\* RiskManager.sync_from_account(info.balance)
SyncFromAccount ==
    /\ op = "idle"
    /\ \E balance \in Balances :
        /\ start_balance' = sync_start_balance(start_balance, balance)
        /\ daily_pnl' = sync_daily_pnl(start_balance, balance)
        /\ synced_balance' = Some(balance)
        /\ op' = "sync_from_account"
        /\ args' = [balance |-> balance, pre_paused |-> is_paused, pre_pnl |-> daily_pnl,
                    pre_start |-> start_balance, pre_synced |-> synced_balance]
        /\ ret' = NoRet
        /\ UNCHANGED <<is_paused, settings, strategy_params, strategy_cache, strategy_enabled, signal_history, runtime>>

\* one iteration of _account_loop when account_info() returns nothing
AccountLoopNoInfo ==
    /\ op = "idle"
    /\ op' = "account_loop_no_info"
    /\ args' = NoArgs
    /\ ret' = NoRet
    /\ UNCHANGED <<is_paused, daily_pnl, start_balance, synced_balance, settings, strategy_params, strategy_cache, strategy_enabled, signal_history, runtime>>

\* RiskManager.calculate_lot_size(symbol, equity, sl_points, regime)
CalculateLotSize(instruments) ==
    /\ op = "idle"
    /\ \E equity \in LotEquities, sl_points \in SlPoints, regime \in Regimes,
       si \in {NoneVal} \cup {Some(i) : i \in instruments} :
        /\ op' = "calculate_lot_size"
        /\ args' = [equity |-> equity, sl_points |-> sl_points, regime |-> regime,
                    symbol_info |-> si, pre_paused |-> is_paused, pre_pnl |-> daily_pnl]
        /\ ret' = [lot |-> calculate_lot_size(settings, equity, sl_points, regime, si)]
        /\ UNCHANGED <<is_paused, daily_pnl, start_balance, synced_balance, settings, strategy_params, strategy_cache, strategy_enabled, signal_history, runtime>>

\* OrderExecutor.execute_market_order(symbol, direction, lot_size, ...)
ExecuteMarketOrder ==
    /\ op = "idle"
    /\ \E symbol \in {"XAUUSDm"}, direction \in {"BUY"}, lot_size \in RequestedLots,
       env \in OrderEnvs(OrderInstruments) :
        /\ op' = "execute_market_order"
        /\ args' = [symbol |-> symbol, direction |-> direction, lot_size |-> lot_size, env |-> env]
        /\ ret' = execute_market_order(settings, env, symbol, direction, lot_size)
        /\ UNCHANGED <<is_paused, daily_pnl, start_balance, synced_balance, settings, strategy_params, strategy_cache, strategy_enabled, signal_history, runtime>>

\* OrderExecutor.close_position(ticket, lot_size)
ClosePosition ==
    /\ op = "idle"
    /\ \E ticket \in Tickets, lot_size \in {NoneVal, Some(0), Some(10)}, env \in CloseEnvs :
        /\ op' = "close_position"
        /\ args' = [ticket |-> ticket, lot_size |-> lot_size, env |-> env]
        /\ ret' = close_position(env, ticket, lot_size)
        /\ UNCHANGED <<is_paused, daily_pnl, start_balance, synced_balance, settings, strategy_params, strategy_cache, strategy_enabled, signal_history, runtime>>

\* OrderExecutor.modify_position(ticket, new_sl, new_tp)
ModifyPosition ==
    /\ op = "idle"
    /\ \E ticket \in Tickets, env \in ModifyEnvs :
        /\ op' = "modify_position"
        /\ args' = [ticket |-> ticket, env |-> env]
        /\ ret' = modify_position(env, ticket)
        /\ UNCHANGED <<is_paused, daily_pnl, start_balance, synced_balance, settings, strategy_params, strategy_cache, strategy_enabled, signal_history, runtime>>

\* OrderExecutor.close_all_positions(symbol)
CloseAllPositions ==
    /\ op = "idle"
    /\ \E env \in CloseAllEnvs :
        /\ op' = "close_all_positions"
        /\ args' = [symbol |-> env.symbol, env |-> env]
        /\ ret' = [results |-> close_all_positions(env)]
        /\ UNCHANGED <<is_paused, daily_pnl, start_balance, synced_balance, settings, strategy_params, strategy_cache, strategy_enabled, signal_history, runtime>>

\* variant of submit_if_approved: the decision is logged but not acted on
submit_always(d, order) == order

\* "if not decision.approved: continue" (main.py 62-63) and "if not
\* decision.approved: return ..." (routes_trade.py 29-30): what follows the
\* approval runs only for an approved decision
submit_if_approved(d, order) == IF d.approved THEN order ELSE NoOrder

\* the execution attempt of _signal_loop for a signal it has just broadcast,
\* with auto-execute on and the bot armed (main.py lines 59-81); nothing is
\* awaited between the account query and the order, so it is one step
SignalLoopExecute ==
    /\ op = "idle"
    /\ \E symbol \in Symbols, direction \in Directions,
       account \in AttemptAccounts, b \in AttemptViews,
       sl_points \in SlPoints, bars \in BOOLEAN, regime \in {"NORMAL", "HIGH_VOL"},
       env \in AttemptEnvs :
        LET equity == IF account = NoneVal THEN 0 ELSE account[1]
            d      == approve_trade(is_paused, daily_pnl, symbol, equity, b)
            lot    == calculate_lot_size(settings, equity, sl_points, regime, env.symbol_info)
            sized  == d.approved /\ bars
            order  == submit_if_approved(d,
                          IF bars /\ lot > 0
                          THEN execute_market_order(settings, env, symbol, direction, lot)
                          ELSE NoOrder)
        IN
        /\ is_paused' = d.is_paused
        /\ op' = "signal_loop"
        /\ args' = [symbol |-> symbol, direction |-> direction, account |-> account,
                    pre_paused |-> is_paused, pre_pnl |-> daily_pnl,
                    pre_start |-> start_balance]
        /\ ret' = [approved |-> d.approved, reason |-> d.reason,
                   approved_for |-> [symbol |-> symbol, direction |-> direction],
                   lot |-> IF sized THEN Some(lot) ELSE NoneVal, order |-> order]
        /\ UNCHANGED <<daily_pnl, start_balance, synced_balance, settings, strategy_params, strategy_cache, strategy_enabled, signal_history, runtime>>

\* POST /api/v1/trade/execute while armed (routes_trade.py lines 26-49)
ExecuteTradeRoute ==
    /\ op = "idle"
    /\ \E symbol \in Symbols, direction \in Directions,
       account \in AttemptAccounts, b \in AttemptViews,
       payload_lot \in {NoneVal, Some(30)}, env \in AttemptEnvs :
        LET equity   == IF account = NoneVal THEN 0 ELSE account[1]
            d        == approve_trade(is_paused, daily_pnl, symbol, equity, b)
            lot_size == IF payload_lot = NoneVal THEN 10 ELSE payload_lot[1]
            order    == submit_if_approved(d,
                            execute_market_order(settings, env, symbol, direction, lot_size))
        IN
        /\ is_paused' = d.is_paused
        /\ op' = "execute_trade"
        /\ args' = [symbol |-> symbol, direction |-> direction, account |-> account,
                    pre_paused |-> is_paused, pre_pnl |-> daily_pnl,
                    pre_start |-> start_balance]
        /\ ret' = [approved |-> d.approved, reason |-> d.reason,
                   approved_for |-> [symbol |-> symbol, direction |-> direction],
                   lot |-> IF d.approved THEN Some(lot_size) ELSE NoneVal, order |-> order]
        /\ UNCHANGED <<daily_pnl, start_balance, synced_balance, settings, strategy_params, strategy_cache, strategy_enabled, signal_history, runtime>>

\* SignalEngine.set_strategy_enabled(name, enabled)
SetStrategyEnabled ==
    /\ op = "idle"
    /\ \E i \in 1..Len(StrategyNames), enabled \in BOOLEAN :
        /\ strategy_enabled' = [strategy_enabled EXCEPT ![i] = enabled]
        /\ op' = "set_strategy_enabled"
        /\ args' = [name |-> StrategyNames[i], enabled |-> enabled]
        /\ ret' = NoRet
        /\ UNCHANGED <<is_paused, daily_pnl, start_balance, synced_balance, settings, strategy_params, strategy_cache, signal_history, runtime>>

\* VolatilityEngine.detect_regime(bars) on the ATR series of the bars
DetectRegime ==
    /\ op = "idle"
    /\ \E series \in AtrSeries :
        /\ op' = "detect_regime"
        /\ args' = [series |-> series]
        /\ ret' = [regime |-> detect_regime(series, LOOKBACK)]
        /\ UNCHANGED <<is_paused, daily_pnl, start_balance, synced_balance, settings, strategy_params, strategy_cache, strategy_enabled, signal_history, runtime>>

\* SignalEngine.set_strategy_params(name, params)
SetStrategyParams(names) ==
    /\ op = "idle"
    /\ \E i \in names, params \in ParamOverrides :
        /\ strategy_params' = [strategy_params EXCEPT ![i] = Some(params)]
        /\ op' = "set_strategy_params"
        /\ args' = [name |-> StrategyNames[i], params |-> params]
        /\ ret' = NoRet
        /\ UNCHANGED <<is_paused, daily_pnl, start_balance, synced_balance, settings, strategy_enabled, strategy_cache, signal_history, runtime>>

\* one strategy's turn in the loop of generate_signal (signal_engine.py
\* 63-71) when its entry rule gives a direction: the override is merged into
\* the cached strategy's params, which keep it, and the strategy builds its result
EvaluateStrategy ==
    /\ op = "idle"
    /\ \E i \in 1..Len(StrategyNames), direction \in Directions,
       entry_price \in EntryPrices, atr_value \in AtrValues :
        LET params == effective_params(strategy_cache[i], strategy_params[i]) IN
        /\ strategy_enabled[i]
        /\ strategy_cache' = [strategy_cache EXCEPT ![i] = params]
        /\ op' = "strategy_signal"
        /\ args' = [name |-> StrategyNames[i], direction |-> direction,
                    entry_price |-> entry_price, atr_value |-> atr_value]
        /\ ret' = strategy_signal(StrategyNames[i], params, "XAUUSDm", direction,
                                  entry_price, atr_value)
        /\ UNCHANGED <<is_paused, daily_pnl, start_balance, synced_balance, settings, strategy_enabled, strategy_params, signal_history, runtime>>

\* SignalEngine.generate_signal(symbol), explored while fewer than bound
\* signals have been recorded
GenerateSignal(symbols, markets, bound) ==
    /\ op = "idle"
    /\ IF signal_history = <<>> THEN TRUE
       ELSE signal_history[Len(signal_history)].seq < bound
    /\ \E symbol \in symbols, m \in markets :
        LET r == generate_signal(strategy_enabled, signal_history, symbol, m) IN
        /\ signal_history' = r.history
        /\ op' = "generate_signal"
        /\ args' = [symbol |-> symbol, market |-> m, pre_history |-> signal_history]
        /\ ret' = [emitted |-> r.emitted, direction |-> r.direction,
                   strategy_name |-> r.strategy_name, confluence |-> r.confluence,
                   aggregated |-> r.aggregated, signal |-> r.signal]
        /\ UNCHANGED <<is_paused, daily_pnl, start_balance, synced_balance, settings, strategy_params, strategy_cache, strategy_enabled, runtime>>

\* SignalEngine.get_recent_signals(limit)
GetRecentSignals ==
    /\ op = "idle"
    /\ \E limit \in RecentLimits :
        /\ op' = "get_recent_signals"
        /\ args' = [limit |-> limit]
        /\ ret' = [signals |-> get_recent_signals(signal_history, limit)]
        /\ UNCHANGED <<is_paused, daily_pnl, start_balance, synced_balance, settings, strategy_params, strategy_cache, strategy_enabled, signal_history, runtime>>

(***************************************************************************)
(* The asyncio runtime (app/main.py).  One thread runs the event loop: a   *)
(* coroutine runs on it from one await to the next, and a blocking call a  *)
(* coroutine makes keeps the thread until the call returns.  event_loop    *)
(* names the coroutine that holds the thread while it is inside such a     *)
(* stretch; every other coroutine waits.  asyncio.to_thread starts a       *)
(* worker thread, which runs beside the loop.                              *)
(***************************************************************************)
\* settings.symbol_list for the default SYMBOLS
SymbolList == <<"BTCUSDm", "XAUUSDm", "XAGUSDm">>

\* account_info() as read by an execution attempt: nothing, or the equity
LoopAccounts == {NoneVal, Some(1000)}
\* account_info() as read by _account_loop: nothing, or the balance
LoopBalances == {NoneVal} \cup {Some(x) : x \in Balances}
\* what the terminal answers during the approve_trade of an attempt: all
\* well, or no connection
LoopViews ==
    { [connected |-> c, positions |-> Some(0), other_open |-> 1, other |-> Some(1),
       account |-> Some([margin |-> 0, free_margin |-> 0])] : c \in BOOLEAN }

MaxLoopSignals == 2     \* signals recorded in one behaviour of the runtime

\* the locals of _signal_loop: the position in the symbol list, status.armed
\* as read at the start of the iteration, the equity and the daily_pnl an
\* approve_trade in progress has read; cancelled_at is where a cancellation
\* found the task
SignalWaiting ==
    [pc |-> "waiting", i |-> 0, armed |-> FALSE, equity |-> 0, pnl_read |-> 0,
     cancelled_at |-> "none"]
AccountWaiting == [pc |-> "waiting", cancelled_at |-> "none"]
ExecuteNone == [pc |-> "none", equity |-> 0, pnl_read |-> 0]
ForecastNone == [pc |-> "none", i |-> 0]

\* asyncio.to_thread(signal_engine.generate_signal, symbol)
\* the thread's locals: the entry its _record_signal appended and the list
\* its slice built, <<>> until then
to_thread(owner, symbol) ==
    [owner |-> owner, symbol |-> symbol, pc |-> "evaluate", entry |-> NoneVal, kept |-> NoneVal]

\* the end of the body of "for symbol in settings.symbol_list" (and every
\* "continue"): the next symbol's generate_signal is awaited, or the loop
\* body is over and the task sleeps
next_symbol(task) ==
    IF task.i < Len(SymbolList)
    THEN [task EXCEPT !.pc = "to_thread", !.i = task.i + 1, !.equity = 0, !.pnl_read = 0]
    ELSE SignalWaiting
\* the same for the "for" of signal_forecast, which responds after the last symbol
next_forecast(task) ==
    IF task.i < Len(SymbolList) THEN [pc |-> "to_thread", i |-> task.i + 1] ELSE ForecastNone
\* the thread a task that has just reached "await asyncio.to_thread" started
started_by(owner, task) ==
    IF task.pc = "to_thread" THEN {to_thread(owner, SymbolList[task.i])} ELSE {}

\* approve_trade up to the daily-loss rule (risk_manager.py 35-43): the pause
\* flag, the connection and the open-position count let the call through
reaches_loss_rule(paused, b) == ~paused /\ b.connected /\ ~max_positions_reached(b)

\* variant of holder_after_read: approve_trade gives the thread up (awaits)
\* between reading daily_pnl and writing is_paused
holder_after_read_awaiting(task) == NoneVal

\* approve_trade is a plain function without an await: between its read of
\* daily_pnl (risk_manager.py 46) and its write of is_paused (47) the calling
\* coroutine keeps the event-loop thread
holder_after_read(task) == Some(task)

\* a coroutine can run when the thread is free or it holds the thread itself
CanRun(task) == event_loop = NoneVal \/ event_loop = Some(task)

RecordedSignals ==
    IF signal_history = <<>> THEN 0 ELSE signal_history[Len(signal_history)].seq

\* a worker thread ends: its result (no signal, a signal, an exception) is
\* handed to the coroutine awaiting it, unless that coroutine was cancelled
WorkerEnds(w, outcome) ==
    /\ workers' = workers \ {w}
    /\ signal_task' =
        IF w.owner # "signal" \/ signal_task.pc # "to_thread" THEN signal_task
        ELSE [signal_task EXCEPT !.pc = CASE outcome = "none" -> "continue"
                                          [] outcome = "signal" -> "broadcast_signal"
                                          [] OTHER -> "failed"]
    /\ forecast_task' =
        IF w.owner # "forecast" THEN forecast_task
        ELSE IF outcome = "raised" THEN ForecastNone
        ELSE [forecast_task EXCEPT !.pc = "resumed"]

\* _signal_loop wakes and reads the bot status (main.py 35-38): it starts on
\* the first symbol, or has nothing to do and sleeps again
SignalCycleStart ==
    /\ ~shut_down /\ event_loop = NoneVal
    /\ signal_task.pc = "waiting"
    /\ LET status == bot_status
           task == IF status.running /\ ~status.paused
                   THEN next_symbol([signal_task EXCEPT !.armed = status.armed])
                   ELSE signal_task
       IN  /\ signal_task' = task
           /\ workers' = workers \cup started_by("signal", task)
    /\ UNCHANGED <<is_paused, daily_pnl, start_balance, synced_balance, settings, strategy_params, strategy_cache, strategy_enabled, signal_history, op, args, ret>>
    /\ UNCHANGED <<bot_status, loop_orders>>
    /\ UNCHANGED <<event_loop, account_task, execute_task, forecast_task, shut_down>>

\* generate_signal in a worker thread, up to the append of _record_signal
\* (signal_engine.py 47-139), or to its "return None"
WorkerEvaluate(markets, bound) ==
    /\ \E w \in workers :
       /\ w.pc = "evaluate"
       /\ \E m \in IF RecordedSignals < bound THEN markets ELSE {NoBars} :
           LET r == generate_signal(strategy_enabled, signal_history, w.symbol, m)
               entry == history_entry(signal_history, r.signal[1], m.regime)
           IN
           IF r.emitted
           THEN /\ signal_history' = Append(signal_history, entry)
                /\ workers' = (workers \ {w}) \cup
                                {[w EXCEPT !.pc = "appended", !.entry = Some(entry)]}
                /\ UNCHANGED <<signal_task, forecast_task>>
           ELSE /\ signal_history' = signal_history
                /\ WorkerEnds(w, "none")
    /\ UNCHANGED <<is_paused, daily_pnl, start_balance, synced_balance, settings, strategy_params, strategy_cache, strategy_enabled, op, args, ret>>
    /\ UNCHANGED <<bot_status, loop_orders>>
    /\ UNCHANGED <<event_loop, account_task, execute_task, shut_down>>

\* the right-hand side of "self._signal_history = self._signal_history[-500:]"
\* (signal_engine.py 140): the slice builds a new list from the history as
\* it is now
WorkerSlice ==
    /\ \E w \in workers :
       /\ w.pc = "appended"
       /\ workers' = (workers \ {w}) \cup
                       {[w EXCEPT !.pc = "sliced",
                                  !.kept = Some(last_n(signal_history, HISTORY_LIMIT))]}
    /\ UNCHANGED <<is_paused, daily_pnl, start_balance, synced_balance, settings, strategy_params, strategy_cache, strategy_enabled, signal_history, op, args, ret>>
    /\ UNCHANGED <<event_loop, signal_task, account_task, execute_task, forecast_task, shut_down>>
    /\ UNCHANGED <<bot_status, loop_orders>>

\* the assignment of that list to self._signal_history, which drops what
\* other threads appended to the old list meanwhile, and the return of the signal
WorkerTruncate ==
    /\ \E w \in workers :
       /\ w.pc = "sliced"
       /\ signal_history' = w.kept[1]
       /\ WorkerEnds(w, "signal")
    /\ UNCHANGED <<is_paused, daily_pnl, start_balance, synced_balance, settings, strategy_params, strategy_cache, strategy_enabled, op, args, ret>>
    /\ UNCHANGED <<bot_status, loop_orders>>
    /\ UNCHANGED <<event_loop, account_task, execute_task, shut_down>>

\* a strategy evaluation raises (signal_engine.py 66-69: "strategy.params =
\* {**strategy.params, **params}" takes any dict set_strategy_params was
\* given, and generate_signal computes with it); asyncio.to_thread raises
\* the exception in the awaiting coroutine, and neither _signal_loop nor
\* signal_forecast catches it
WorkerRaises ==
    /\ \E w \in workers :
       /\ w.pc = "evaluate"
       /\ WorkerEnds(w, "raised")
    /\ UNCHANGED <<is_paused, daily_pnl, start_balance, synced_balance, settings, strategy_params, strategy_cache, strategy_enabled, signal_history, op, args, ret>>
    /\ UNCHANGED <<bot_status, loop_orders>>
    /\ UNCHANGED <<event_loop, account_task, execute_task, shut_down>>

\* after "await ws_manager.broadcast(signal)" (main.py 41-60): without
\* auto-execute or unarmed the loop goes on; else it calls mt5.account_info()
\* on the event-loop thread
SignalAfterBroadcast ==
    /\ ~shut_down /\ event_loop = NoneVal
    /\ signal_task.pc = "broadcast_signal"
    /\ \E auto_execute \in BOOLEAN :
        IF auto_execute /\ signal_task.armed
        THEN /\ signal_task' = [signal_task EXCEPT !.pc = "account_info"]
             /\ event_loop' = Some("signal")
             /\ UNCHANGED workers
        ELSE /\ signal_task' = next_symbol(signal_task)
             /\ workers' = workers \cup started_by("signal", next_symbol(signal_task))
             /\ UNCHANGED event_loop
    /\ UNCHANGED <<is_paused, daily_pnl, start_balance, synced_balance, settings, strategy_params, strategy_cache, strategy_enabled, signal_history, op, args, ret>>
    /\ UNCHANGED <<bot_status, loop_orders>>
    /\ UNCHANGED <<account_task, execute_task, forecast_task, shut_down>>

\* account_info() returns and approve_trade runs up to its read of daily_pnl
\* (main.py 59-61, risk_manager.py 35-46); a rejection before that is a "continue"
SignalAttemptRead ==
    /\ ~shut_down /\ event_loop = Some("signal")
    /\ signal_task.pc = "account_info"
    /\ \E account \in LoopAccounts, b \in LoopViews :
        IF reaches_loss_rule(is_paused, b)
        THEN /\ signal_task' = [signal_task EXCEPT !.pc = "approve_trade",
                                    !.equity = IF account = NoneVal THEN 0 ELSE account[1],
                                    !.pnl_read = daily_pnl]
             /\ event_loop' = holder_after_read("signal")
             /\ UNCHANGED workers
        ELSE /\ signal_task' = next_symbol(signal_task)
             /\ workers' = workers \cup started_by("signal", next_symbol(signal_task))
             /\ event_loop' = NoneVal
    /\ UNCHANGED <<is_paused, daily_pnl, start_balance, synced_balance, settings, strategy_params, strategy_cache, strategy_enabled, signal_history, op, args, ret>>
    /\ UNCHANGED <<bot_status, loop_orders>>
    /\ UNCHANGED <<account_task, execute_task, forecast_task, shut_down>>

\* the rest of approve_trade, from the comparison with the loss limit, and of
\* the attempt (risk_manager.py 46-56, main.py 62-81): a rejection is a
\* "continue", and so are missing bars or a lot size of 0 (sized is false);
\* else execute_market_order is called and its result broadcast
SignalAttemptFinish ==
    /\ ~shut_down /\ CanRun("signal")
    /\ signal_task.pc = "approve_trade"
    /\ \E b \in {v \in LoopViews : reaches_loss_rule(FALSE, v)}, sized \in BOOLEAN :
        LET d == evaluate_rules(signal_task.pnl_read, SymbolList[signal_task.i],
                                signal_task.equity, b)
            sent == d.approved /\ sized
            task == IF sent
                    THEN [signal_task EXCEPT !.pc = "broadcast_result", !.equity = 0, !.pnl_read = 0]
                    ELSE next_symbol(signal_task)
        IN  /\ is_paused' = d.is_paused
            /\ signal_task' = task
            /\ workers' = workers \cup started_by("signal", task)
            /\ loop_orders' = IF sent THEN [loop_orders EXCEPT ![signal_task.i] = @ + 1]
                               ELSE loop_orders
    /\ event_loop' = NoneVal
    /\ UNCHANGED <<daily_pnl, start_balance, synced_balance, settings, strategy_params, strategy_cache, strategy_enabled, signal_history, op, args, ret>>
    /\ UNCHANGED bot_status
    /\ UNCHANGED <<account_task, execute_task, forecast_task, shut_down>>

\* the loop goes on to the next symbol, after a generate_signal that returned
\* None or after the broadcast of an order result (main.py 37-40, 82)
SignalContinue ==
    /\ ~shut_down /\ event_loop = NoneVal
    /\ signal_task.pc \in {"continue", "broadcast_result"}
    /\ signal_task' = next_symbol(signal_task)
    /\ workers' = workers \cup started_by("signal", next_symbol(signal_task))
    /\ UNCHANGED <<is_paused, daily_pnl, start_balance, synced_balance, settings, strategy_params, strategy_cache, strategy_enabled, signal_history, op, args, ret>>
    /\ UNCHANGED <<bot_status, loop_orders>>
    /\ UNCHANGED <<event_loop, account_task, execute_task, forecast_task, shut_down>>

\* _account_loop wakes and calls mt5.account_info() on the event-loop thread (main.py 93)
AccountPoll ==
    /\ ~shut_down /\ event_loop = NoneVal
    /\ account_task.pc = "waiting"
    /\ account_task' = [account_task EXCEPT !.pc = "account_info"]
    /\ event_loop' = Some("account")
    /\ UNCHANGED <<is_paused, daily_pnl, start_balance, synced_balance, settings, strategy_params, strategy_cache, strategy_enabled, signal_history, op, args, ret>>
    /\ UNCHANGED <<bot_status, loop_orders>>
    /\ UNCHANGED <<signal_task, execute_task, forecast_task, workers, shut_down>>

\* account_info() returns: with a snapshot sync_from_account runs and the
\* update is broadcast, without one the task sleeps (main.py 94-111)
AccountSync ==
    /\ ~shut_down /\ CanRun("account")
    /\ account_task.pc = "account_info"
    /\ \E info \in LoopBalances :
        IF info = NoneVal
        THEN /\ account_task' = [account_task EXCEPT !.pc = "waiting"]
             /\ UNCHANGED <<daily_pnl, start_balance, synced_balance>>
        ELSE /\ account_task' = [account_task EXCEPT !.pc = "broadcast"]
             /\ start_balance' = sync_start_balance(start_balance, info[1])
             /\ daily_pnl' = sync_daily_pnl(start_balance, info[1])
             /\ synced_balance' = info
    /\ event_loop' = NoneVal
    /\ UNCHANGED <<is_paused, settings, strategy_params, strategy_cache, strategy_enabled, signal_history, op, args, ret>>
    /\ UNCHANGED <<bot_status, loop_orders>>
    /\ UNCHANGED <<signal_task, execute_task, forecast_task, workers, shut_down>>

\* after "await ws_manager.broadcast(account_update)" the task sleeps
AccountAfterBroadcast ==
    /\ ~shut_down /\ event_loop = NoneVal
    /\ account_task.pc = "broadcast"
    /\ account_task' = [account_task EXCEPT !.pc = "waiting"]
    /\ UNCHANGED <<is_paused, daily_pnl, start_balance, synced_balance, settings, strategy_params, strategy_cache, strategy_enabled, signal_history, op, args, ret>>
    /\ UNCHANGED <<bot_status, loop_orders>>
    /\ UNCHANGED <<event_loop, signal_task, execute_task, forecast_task, workers, shut_down>>

\* POST /api/v1/trade/execute while armed: after the status check the
\* handler calls mt5.account_info() on the event-loop thread (routes_trade.py 20-27)
ExecuteRequest ==
    /\ ~shut_down /\ event_loop = NoneVal
    /\ execute_task.pc = "none"
    /\ bot_status.armed
    /\ execute_task' = [execute_task EXCEPT !.pc = "account_info"]
    /\ event_loop' = Some("execute")
    /\ UNCHANGED <<is_paused, daily_pnl, start_balance, synced_balance, settings, strategy_params, strategy_cache, strategy_enabled, signal_history, op, args, ret>>
    /\ UNCHANGED <<bot_status, loop_orders>>
    /\ UNCHANGED <<signal_task, account_task, forecast_task, workers, shut_down>>

\* account_info() returns and approve_trade runs up to its read of daily_pnl
\* (routes_trade.py 26-28); a rejection before that ends the request
ExecuteRead ==
    /\ ~shut_down /\ event_loop = Some("execute")
    /\ execute_task.pc = "account_info"
    /\ \E account \in LoopAccounts, b \in LoopViews :
        IF reaches_loss_rule(is_paused, b)
        THEN /\ execute_task' = [pc |-> "approve_trade",
                                 equity |-> IF account = NoneVal THEN 0 ELSE account[1],
                                 pnl_read |-> daily_pnl]
             /\ event_loop' = holder_after_read("execute")
        ELSE /\ execute_task' = ExecuteNone
             /\ event_loop' = NoneVal
    /\ UNCHANGED <<is_paused, daily_pnl, start_balance, synced_balance, settings, strategy_params, strategy_cache, strategy_enabled, signal_history, op, args, ret>>
    /\ UNCHANGED <<bot_status, loop_orders>>
    /\ UNCHANGED <<signal_task, account_task, forecast_task, workers, shut_down>>

\* the rest of approve_trade and of the handler (routes_trade.py 28-49)
ExecuteFinish ==
    /\ ~shut_down /\ CanRun("execute")
    /\ execute_task.pc = "approve_trade"
    /\ \E symbol \in Symbols, b \in {v \in LoopViews : reaches_loss_rule(FALSE, v)} :
        is_paused' = evaluate_rules(execute_task.pnl_read, symbol, execute_task.equity, b).is_paused
    /\ execute_task' = ExecuteNone
    /\ event_loop' = NoneVal
    /\ UNCHANGED <<daily_pnl, start_balance, synced_balance, settings, strategy_params, strategy_cache, strategy_enabled, signal_history, op, args, ret>>
    /\ UNCHANGED <<bot_status, loop_orders>>
    /\ UNCHANGED <<signal_task, account_task, forecast_task, workers, shut_down>>

\* GET /api/v1/signals/forecast: generate_signal for the first symbol is
\* awaited in a worker thread (routes_signal.py 24-28)
ForecastRequest ==
    /\ ~shut_down /\ event_loop = NoneVal
    /\ forecast_task.pc = "none"
    /\ forecast_task' = next_forecast(forecast_task)
    /\ workers' = workers \cup started_by("forecast", next_forecast(forecast_task))
    /\ UNCHANGED <<is_paused, daily_pnl, start_balance, synced_balance, settings, strategy_params, strategy_cache, strategy_enabled, signal_history, op, args, ret>>
    /\ UNCHANGED <<bot_status, loop_orders>>
    /\ UNCHANGED <<event_loop, signal_task, account_task, execute_task, shut_down>>

\* the handler has its result for one symbol and goes on to the next, or responds
ForecastContinue ==
    /\ ~shut_down /\ event_loop = NoneVal
    /\ forecast_task.pc = "resumed"
    /\ forecast_task' = next_forecast(forecast_task)
    /\ workers' = workers \cup started_by("forecast", next_forecast(forecast_task))
    /\ UNCHANGED <<is_paused, daily_pnl, start_balance, synced_balance, settings, strategy_params, strategy_cache, strategy_enabled, signal_history, op, args, ret>>
    /\ UNCHANGED <<bot_status, loop_orders>>
    /\ UNCHANGED <<event_loop, signal_task, account_task, execute_task, shut_down>>

\* the bot controls of routes_settings.py: start and stop, pause and resume,
\* arm and disarm.  Each awaits a BotState method that takes the lock, which
\* is free whenever the event loop is, and writes the status without
\* suspending
ControlFrame ==
    /\ UNCHANGED <<is_paused, daily_pnl, start_balance, synced_balance, settings, strategy_params, strategy_cache, strategy_enabled, signal_history, op, args, ret>>
    /\ UNCHANGED <<event_loop, signal_task, account_task, execute_task, forecast_task, workers, shut_down, loop_orders>>

\* POST /api/v1/settings/bot/arm: bot_state.arm()
Arm ==
    /\ ~shut_down /\ event_loop = NoneVal
    /\ bot_status' = [bot_status EXCEPT !.armed = TRUE]
    /\ ControlFrame

\* POST /api/v1/settings/bot/disarm: bot_state.disarm(reason)
Disarm ==
    /\ ~shut_down /\ event_loop = NoneVal
    /\ bot_status' = [bot_status EXCEPT !.armed = FALSE]
    /\ ControlFrame

\* POST /api/v1/settings/bot/pause and /resume: bot_state.set_paused(paused)
SetPaused ==
    /\ ~shut_down /\ event_loop = NoneVal
    /\ \E paused \in BOOLEAN : bot_status' = [bot_status EXCEPT !.paused = paused]
    /\ ControlFrame

\* POST /api/v1/settings/bot/start and /stop: bot_state.set_running(running)
SetRunning ==
    /\ ~shut_down /\ event_loop = NoneVal
    /\ \E running \in BOOLEAN : bot_status' = [bot_status EXCEPT !.running = running]
    /\ ControlFrame

\* GET /: the status answer of the application, which needs the event loop
\* and nothing else (main.py 155-157)
RootStatus ==
    /\ ~shut_down /\ event_loop = NoneVal
    /\ UNCHANGED vars

\* a task that task.cancel() finds at an await: CancelledError is raised
\* there and ends it; a task that has already ended is left as it is
cancel(task) ==
    IF task.pc = "failed" THEN task
    ELSE [task EXCEPT !.pc = "cancelled", !.cancelled_at = task.pc]

\* lifespan after its yield (main.py 125-128): both tasks are cancelled and
\* the connector is shut down at once; the server runs this when no request
\* is being handled.  Worker threads are not stopped.
Shutdown ==
    /\ ~shut_down /\ event_loop = NoneVal
    /\ execute_task.pc = "none" /\ forecast_task.pc = "none"
    /\ signal_task' = cancel(signal_task)
    /\ account_task' = cancel(account_task)
    /\ shut_down' = TRUE
    /\ UNCHANGED <<is_paused, daily_pnl, start_balance, synced_balance, settings, strategy_params, strategy_cache, strategy_enabled, signal_history, op, args, ret>>
    /\ UNCHANGED <<bot_status, loop_orders>>
    /\ UNCHANGED <<event_loop, execute_task, forecast_task, workers>>

(***************************************************************************)
(* Specifications                                                          *)
(***************************************************************************)
InitState(cfgs) ==
    /\ is_paused = FALSE
    /\ daily_pnl = 0
    /\ start_balance = NoneVal
    /\ synced_balance = NoneVal
    /\ settings \in cfgs
    /\ strategy_enabled = [i \in 1..Len(StrategyNames) |-> TRUE]
    /\ strategy_params = [i \in 1..Len(StrategyNames) |-> NoneVal]
    /\ strategy_cache = [i \in 1..Len(StrategyNames) |-> default_params(StrategyNames[i])]
    /\ signal_history = <<>>
    /\ op = "idle"
    /\ args = NoArgs
    /\ ret = NoRet
    /\ event_loop = NoneVal
    /\ signal_task = SignalWaiting
    /\ account_task = AccountWaiting
    /\ execute_task = ExecuteNone
    /\ forecast_task = ForecastNone
    /\ workers = {}
    /\ shut_down = FALSE
    /\ bot_status = [running |-> TRUE, paused |-> FALSE, armed |-> FALSE]
    /\ loop_orders = [i \in 1..Len(SymbolList) |-> 0]

\* the Risk Manager and the execution attempts that consult it
Init == InitState({DefaultSettings})
Next ==
    \/ ApproveTrade
    \/ UpdateDailyPnl
    \/ SyncFromAccount
    \/ AccountLoopNoInfo
    \/ CalculateLotSize({StdInstrument})
    \/ SignalLoopExecute
    \/ ExecuteTradeRoute
    \/ Idle
Spec == Init /\ [][Next]_vars

\* the Signal Engine
InitSignal == InitState({DefaultSettings})
NextSignal == SetStrategyEnabled \/ GenerateSignal({"XAUUSDm"}, Markets, MaxSignals) \/ Idle
SpecSignal == InitSignal /\ [][NextSignal]_vars

\* the signal history over long runs
InitHistory == InitState({DefaultSettings})
NextHistory ==
    \/ GenerateSignal({"XAUUSDm"}, HistoryMarkets, MaxHistorySignals)
    \/ GetRecentSignals
    \/ Idle
SpecHistory == InitHistory /\ [][NextHistory]_vars

\* position sizing over configurations and instruments
InitLot == InitState(LotSettings)
NextLot == CalculateLotSize(LotInstruments) \/ Idle
SpecLot == InitLot /\ [][NextLot]_vars

\* the Order Executor over configurations and instruments
InitOrder == InitState(OrderSettings)
NextOrder ==
    \/ ExecuteMarketOrder
    \/ ClosePosition
    \/ ModifyPosition
    \/ CloseAllPositions
    \/ Idle
SpecOrder == InitOrder /\ [][NextOrder]_vars

\* the volatility regime of every ATR series
InitRegime == InitState({DefaultSettings})
NextRegime == DetectRegime \/ Idle
SpecRegime == InitRegime /\ [][NextRegime]_vars

\* the strategies under parameter overrides (of the first and the last one)
InitStrategy == InitState({DefaultSettings})
NextStrategy == SetStrategyParams({1, Len(StrategyNames)}) \/ EvaluateStrategy \/ Idle
SpecStrategy == InitStrategy /\ [][NextStrategy]_vars

\* the event loop with its two tasks, the /execute handler, arming and
\* disarming, the worker threads of the signal loop and the shutdown
InitRuntime == InitState({DefaultSettings})
SignalSteps ==
    \/ SignalCycleStart
    \/ SignalAfterBroadcast
    \/ SignalAttemptRead
    \/ SignalAttemptFinish
    \/ SignalContinue
AccountSteps == AccountPoll \/ AccountSync \/ AccountAfterBroadcast
WorkerSteps ==
    \/ WorkerEvaluate(HistoryMarkets, MaxLoopSignals)
    \/ WorkerSlice
    \/ WorkerTruncate
    \/ WorkerRaises
ControlSteps == Arm \/ Disarm \/ SetPaused \/ SetRunning
RouteSteps ==
    \/ ExecuteRequest
    \/ ExecuteRead
    \/ ExecuteFinish
    \/ RootStatus
ForecastSteps == ForecastRequest \/ ForecastContinue
NextRuntime ==
    SignalSteps \/ AccountSteps \/ WorkerSteps \/ RouteSteps \/ Arm \/ Disarm \/ Shutdown
SpecRuntime == InitRuntime /\ [][NextRuntime]_vars

\* the worker threads of the signal loop, while the bot is not armed, and of
\* /forecast requests
InitWorkers == InitState({DefaultSettings})
NextWorkers ==
    \/ SignalCycleStart
    \/ SignalAfterBroadcast
    \/ SignalContinue
    \/ WorkerSteps
    \/ ForecastSteps
SpecWorkers == InitWorkers /\ [][NextWorkers]_vars

\* the signal loop and its worker threads under the bot controls, while the
\* bars and the tick of every instrument stay as they are
MaxSteadySignals == 4   \* signals recorded in one behaviour of the steady market
SteadyMarkets ==
    {[bars |-> TRUE, regime |-> "NORMAL", outputs |-> <<"BUY", "NEUTRAL", "BUY", "NEUTRAL">>,
      m5 |-> [len |-> 25, fast |-> 101, slow |-> 100], tick |-> Some([bid |-> 100, ask |-> 101])]}
InitLoop == InitState({DefaultSettings})
NextLoop ==
    \/ SignalSteps
    \/ WorkerEvaluate(SteadyMarkets, MaxSteadySignals) \/ WorkerSlice \/ WorkerTruncate
    \/ ControlSteps
SpecLoop == InitLoop /\ [][NextLoop]_vars

\* the same under the scheduling the runtime gives: the event loop runs every
\* coroutine that is ready, a blocking call returns, and the operating
\* system runs every started thread
SpecRuntimeFair ==
    /\ InitRuntime
    /\ [][NextRuntime]_vars
    /\ WF_vars(SignalSteps)
    /\ WF_vars(AccountSteps)
    /\ WF_vars(WorkerSteps)
    /\ WF_vars(ExecuteRead \/ ExecuteFinish)

(***************************************************************************)
(* Properties                                                              *)
(***************************************************************************)
InSeq(x, seq) == \E i \in 1..Len(seq) : seq[i] = x

RuleNames == <<"pause", "connectivity", "positions", "daily_loss", "correlation", "free_margin">>
RuleReasons == <<"Trading paused by risk manager", "MT5 not connected",
                 "Max open positions reached", "Daily loss limit hit",
                 "Correlated exposure limit", "Free margin below threshold">>

\* the outcome of each rule of the last approve_trade call, from its inputs
AtOrBelowLossLimit == args.pre_pnl * 100 <= -(args.equity * MAX_DAILY_LOSS_PERCENT)
PositionsAtMax == args.b.positions # NoneVal /\ args.b.positions[1] >= MAX_OPEN_POSITIONS
CorrelationExceeded ==
    /\ args.symbol \in {"XAUUSDm", "XAGUSDm"}
    /\ args.b.other # NoneVal
    /\ args.b.other[1] >= 2
MarginTooLow ==
    \/ args.b.account = NoneVal
    \/ /\ args.b.account[1].margin > 0
       /\ args.b.account[1].free_margin * 100 < FREE_MARGIN_MIN_PERCENT * args.b.account[1].margin
RuleFails(k) ==
    CASE k = 1 -> args.pre_paused
      [] k = 2 -> ~args.b.connected
      [] k = 3 -> PositionsAtMax
      [] k = 4 -> AtOrBelowLossLimit
      [] k = 5 -> CorrelationExceeded
      [] k = 6 -> MarginTooLow
FirstFailing ==
    IF \E k \in 1..6 : RuleFails(k)
    THEN CHOOSE k \in 1..6 : RuleFails(k) /\ \A j \in 1..(k - 1) : ~RuleFails(j)
    ELSE 7
\* the call gets as far as the daily-loss rule
ReachesDailyLoss == ~args.pre_paused /\ args.b.connected /\ ~PositionsAtMax

\* C1 as stated: every approve_trade call made with daily_pnl at or below
\* -(equity x max_daily_loss) returns a rejection and leaves is_paused true;
\* above the limit the daily-loss rule neither rejects nor pauses, and the
\* correlation and margin rules are evaluated when the call gets to them.
C1_AsStated ==
    op = "approve_trade" =>
        /\ AtOrBelowLossLimit => (~ret.approved /\ is_paused)
        /\ ~AtOrBelowLossLimit =>
              /\ ret.reason # "Daily loss limit hit"
              /\ is_paused = args.pre_paused
              /\ ReachesDailyLoss => InSeq("correlation", ret.evaluated)
              /\ (ReachesDailyLoss /\ ~CorrelationExceeded) => InSeq("free_margin", ret.evaluated)

\* C1 amended: every approve_trade call made with daily_pnl at or below the
\* limit returns a rejection, and is_paused is true when it returns exactly
\* when it was already true or the call got past the connectivity and
\* open-position rules (then the reason is 'Daily loss limit hit'); above the
\* limit the daily-loss rule neither rejects nor pauses, and the correlation
\* rule, then (if it passes) the margin rule, are evaluated.
C1_DailyLossBreaker ==
    op = "approve_trade" =>
        /\ AtOrBelowLossLimit =>
              /\ ~ret.approved
              /\ is_paused <=> (args.pre_paused \/ ReachesDailyLoss)
              /\ ReachesDailyLoss => ret.reason = "Daily loss limit hit"
        /\ ~AtOrBelowLossLimit =>
              /\ ret.reason # "Daily loss limit hit"
              /\ is_paused = args.pre_paused
              /\ ReachesDailyLoss => InSeq("correlation", ret.evaluated)
              /\ (ReachesDailyLoss /\ ~CorrelationExceeded) => InSeq("free_margin", ret.evaluated)

\* C1 witness: a call at the limit (equity 1000, daily_pnl -50) that latched the pause
C1_Witness ==
    /\ op = "approve_trade"
    /\ args.equity = 1000 /\ args.pre_pnl = -50
    /\ ~args.pre_paused /\ is_paused
    /\ ret.reason = "Daily loss limit hit"

ApprovalOps == {"approve_trade", "signal_loop", "execute_trade"}

\* C2: is_paused, once true, stays true through every operation, and every
\* approve_trade made while it is true (directly, by the loop or by the route)
\* is rejected with 'Trading paused by risk manager'.
C2_PauseIsSticky ==
    [][ /\ is_paused => is_paused'
        /\ (is_paused /\ op' \in ApprovalOps) =>
              (~ret'.approved /\ ret'.reason = "Trading paused by risk manager") ]_vars

\* C2 witness: a rejected call on a paused manager whose daily_pnl has been
\* synced back above the loss limit
C2_Witness ==
    /\ op = "approve_trade"
    /\ args.pre_paused /\ is_paused
    /\ start_balance # NoneVal
    /\ args.equity > 0 /\ ~AtOrBelowLossLimit
    /\ ret.reason = "Trading paused by risk manager"

\* C3: an execution attempt of the loop or the route that gets no account
\* snapshot submits no order and leaves is_paused as it was.
C3_MissingSnapshotIsSoft ==
    (op \in {"signal_loop", "execute_trade"} /\ args.account = NoneVal) =>
        /\ is_paused = args.pre_paused
        /\ ~InSeq("order_send", ret.order.calls)

\* C4: approve_trade returns the reason of the first failing rule in the order
\* pause, connectivity, positions, daily loss, correlation, margin, evaluates
\* no rule after it, and approves exactly when no rule fails.
C4_RuleOrder ==
    op = "approve_trade" =>
        IF FirstFailing <= 6
        THEN /\ ~ret.approved
             /\ ret.reason = RuleReasons[FirstFailing]
             /\ ret.evaluated = SubSeq(RuleNames, 1, FirstFailing)
        ELSE /\ ret.approved
             /\ ret.reason = "Approved"
             /\ ret.evaluated = RuleNames

\* C4 witness: the open-position rule rejects although the daily-loss, the
\* correlation and the margin rule would fail as well
C4_Witness ==
    /\ op = "approve_trade"
    /\ ret.reason = "Max open positions reached"
    /\ AtOrBelowLossLimit /\ CorrelationExceeded /\ MarginTooLow

\* supporters among the candidates of the last generate_signal call
Supporters(direction) ==
    Cardinality({i \in 1..Len(StrategyNames) :
                    strategy_enabled[i] /\ args.market.outputs[i] = direction})
\* the call got as far as the strategies
StrategiesRan == args.market.bars /\ args.market.regime # "EXTREME"

\* C5: confluence selects BUY only with b >= 2 and b >= s, SELL only with
\* s >= 2 and s >= b, and nothing (no signal) when neither side has 2
\* supporters; 2 BUY + 1 SELL selects BUY, 1 BUY + 1 SELL gives no signal.
C5_Confluence ==
    op = "generate_signal" =>
        LET b == Supporters("BUY")
            s == Supporters("SELL")
        IN  /\ ret.confluence = "BUY" => (b >= 2 /\ b >= s)
            /\ ret.confluence = "SELL" => (s >= 2 /\ s >= b)
            /\ (b < 2 /\ s < 2) => (ret.confluence \notin Directions /\ ~ret.emitted)
            /\ (StrategiesRan /\ b = 2 /\ s = 1) => ret.confluence = "BUY"
            /\ (StrategiesRan /\ b = 1 /\ s = 1) => (ret.confluence = "None" /\ ~ret.emitted)

\* C5 witness: 2 BUY + 1 SELL candidates, and the BUY signal is returned
C5_Witness ==
    /\ op = "generate_signal"
    /\ Supporters("BUY") = 2 /\ Supporters("SELL") = 1
    /\ ret.confluence = "BUY" /\ ret.emitted /\ ret.direction = "BUY"

\* C6: with equally many BUY and SELL supporters, at least 2 each, confluence
\* selects no direction and generate_signal returns no signal.
C6_TieGivesNoSignal ==
    (op = "generate_signal" /\ StrategiesRan
        /\ Supporters("BUY") = Supporters("SELL") /\ Supporters("BUY") >= 2) =>
        (ret.confluence \notin Directions /\ ~ret.emitted)

\* the instrument and limits of the last calculate_lot_size call
LotInfo == args.symbol_info[1]
LotStep == IF LotInfo.volume_step = 0 THEN DEFAULT_VOLUME_STEP ELSE LotInfo.volume_step
LotMin == IF settings.min_override # NoneVal THEN settings.min_override[1] ELSE LotInfo.volume_min
LotMax == Min(LotInfo.volume_max, settings.MAX_LOT_SIZE)
LotMultiplier == CASE args.regime = "HIGH_VOL" -> 3 [] args.regime = "EXTREME" -> 2 [] OTHER -> 4
\* lot x stop x (tick_value / tick_size) <= equity x max_risk x multiplier,
\* with the lot in thousandths, the percentage and the quarters multiplied out
WithinRiskBudget(lot) ==
    lot * args.sl_points * LotInfo.trade_tick_value * 400
        <= 1000 * args.equity * settings.MAX_RISK_PER_TRADE_PERCENT * LotMultiplier * LotInfo.trade_tick_size
LotIsSized ==
    /\ op = "calculate_lot_size"
    /\ args.sl_points > 0
    /\ args.symbol_info # NoneVal
    /\ LotInfo.trade_tick_value > 0 /\ LotInfo.trade_tick_size > 0

\* C7: every non-zero lot returned by calculate_lot_size is a multiple of the
\* volume step and lies within [minimum lot, min(instrument maximum, MAX_LOT_SIZE)].
C7_LotOnGrid ==
    (op = "calculate_lot_size" /\ ret.lot # 0) =>
        /\ ret.lot % LotStep = 0
        /\ LotMin <= ret.lot
        /\ ret.lot <= LotMax

\* C8 as stated: with a positive stop distance and valid tick value and size
\* the returned lot never risks more than the budget.
C8_AsStated == LotIsSized => WithinRiskBudget(ret.lot)

\* C8 amended: ... the returned lot never risks more than the budget, except
\* when it is the minimum lot (the clamp to the instrument or override
\* minimum is the only step that raises the lot; quantisation rounds toward zero).
C8_WithinBudgetOrMinimum == LotIsSized => (WithinRiskBudget(ret.lot) \/ ret.lot = LotMin)

\* C8 witness: a lot strictly between the minimum and the maximum that was
\* rounded down: it is within the budget and one step more is not
C8_Witness ==
    /\ LotIsSized
    /\ LotMin < ret.lot /\ ret.lot < LotMax
    /\ WithinRiskBudget(ret.lot)
    /\ ~WithinRiskBudget(ret.lot + LotStep)

\* the instrument of the last execute_market_order call
OrderInfo == args.env.symbol_info[1]
OrderStep == IF OrderInfo.volume_step = 0 THEN DEFAULT_VOLUME_STEP ELSE OrderInfo.volume_step

\* C9: the volume of every order request built by execute_market_order is a
\* multiple of the volume step, at least the instrument minimum and at most
\* min(instrument maximum, MAX_LOT_SIZE).
C9_VolumeOnGrid ==
    (op = "execute_market_order" /\ ret.request # NoneVal) =>
        /\ ret.request[1].volume % OrderStep = 0
        /\ ret.request[1].volume >= OrderInfo.volume_min
        /\ ret.request[1].volume <= Min(OrderInfo.volume_max, settings.MAX_LOT_SIZE)

\* C10: execute_market_order calls order_send only if order_check returned the
\* done code for the request.
C10_SendOnlyAfterCheckDone ==
    (op = "execute_market_order" /\ InSeq("order_send", ret.calls)) =>
        args.env.check = Some(TRADE_RETCODE_DONE)

SendOps == {"execute_market_order", "close_position", "modify_position"}
\* the return-code table: what each listed code is to be reported as
RetcodeTable ==
    (10009 :> "Order executed successfully") @@ (10004 :> "Requote received") @@
    (10006 :> "Order rejected by server") @@ (10007 :> "Order cancelled") @@
    (10008 :> "Order placed (pending)") @@ (10019 :> "Insufficient margin") @@
    (10021 :> "Price changed, no requote") @@ (10013 :> "Invalid request") @@
    (10014 :> "Invalid volume") @@ (10015 :> "Invalid price") @@
    (10016 :> "Invalid SL/TP") @@ (10018 :> "Market closed") @@
    (10031 :> "No connection") @@ (10012 :> "Request timeout") @@ (10027 :> "Invalid volume")

\* C11: for every return code c that order_send returns to execute_market_order,
\* close_position or modify_position, success is true exactly when c is the
\* done code, the message is the table's message for any other listed code and
\* the generic unknown message for an unlisted code, and c is kept in the
\* result details.
C11_OutcomeMapping ==
    (op \in SendOps /\ InSeq("order_send", ret.calls) /\ args.env.send # NoneVal) =>
        LET c == args.env.send[1] IN
        /\ ret.success <=> (c = 10009)
        /\ (c # 10009 /\ c \in DOMAIN RetcodeTable) => ret.message = RetcodeTable[c]
        /\ c \notin DOMAIN RetcodeTable => ret.message = "Unknown retcode"
        /\ ret.retcode = Some(c)

\* C11 witness: a close that the server answers with a code the table does
\* not list
C11_Witness ==
    /\ op = "close_position"
    /\ args.env.send = Some(10099)
    /\ ~ret.success /\ ret.message = "Unknown retcode" /\ ret.retcode = Some(10099)

AttemptOps == {"signal_loop", "execute_trade"}
\* the last attempt handed an order to the broker
Submitted == InSeq("order_send", ret.order.calls)

\* C12: every market order submitted by the signal loop or the /execute route
\* follows, in the same cycle or request, an approve_trade call for the same
\* symbol and direction that returned approved, with the Risk Manager state
\* (pause flag, daily_pnl, baseline) unchanged from that approval to the
\* submission; after a rejected decision nothing is sent to the broker.
C12_SubmissionFollowsApproval ==
    op \in AttemptOps =>
        /\ Submitted =>
              /\ ret.approved /\ ret.reason = "Approved"
              /\ ret.order.request[1].symbol = ret.approved_for.symbol
              /\ ret.order.request[1].type = ret.approved_for.direction
              /\ ~args.pre_paused /\ ~is_paused
              /\ daily_pnl = args.pre_pnl
              /\ start_balance = args.pre_start
        /\ ~ret.approved => ret.order.calls = <<>>

\* C12 witness: the signal loop submitted a SELL order for silver after an
\* approval, with the daily result already synced from the account
C12_Witness ==
    /\ op = "signal_loop"
    /\ Submitted /\ ret.approved /\ ret.order.success
    /\ args.symbol = "XAGUSDm" /\ args.direction = "SELL"
    /\ start_balance # NoneVal

\* C13: immediately after sync_from_account(b) returns, daily_pnl = b - B with
\* B the balance of the first sync_from_account call: the call that finds no
\* baseline latches its balance, and no later operation changes the baseline.
C13_PnlIsBalanceMinusBaseline ==
    [][ /\ op' = "sync_from_account" =>
              /\ start_balance = NoneVal => start_balance' = Some(args'.balance)
              /\ daily_pnl' = args'.balance - start_balance'[1]
        /\ start_balance # NoneVal => start_balance' = start_balance
        /\ (start_balance = NoneVal /\ op' # "sync_from_account") => start_balance' = NoneVal ]_vars

\* C13 witness: a sync with a balance below the baseline, after update_daily_pnl
\* had moved daily_pnl away from it
C13_Witness ==
    /\ op = "sync_from_account"
    /\ args.pre_start = Some(1000) /\ args.balance = 950
    /\ args.pre_pnl = 50
    /\ daily_pnl = -50 /\ start_balance = Some(1000)

\* the last sync_from_account call was given the balance of the call before
\* it, or was the first call
BalanceUnchanged ==
    /\ op = "sync_from_account"
    /\ args.pre_synced = NoneVal \/ args.pre_synced = Some(args.balance)
\* sync_from_account(b) applied once more to the state it left changes nothing
SyncAgainChangesNothing ==
    /\ sync_start_balance(start_balance, args.balance) = start_balance
    /\ sync_daily_pnl(start_balance, args.balance) = daily_pnl

\* C14 as stated: sync_from_account with an unchanged balance (the first call
\* and calls after update_daily_pnl included) leaves daily_pnl unchanged, and
\* n calls have the effect of one.
C14_AsStated ==
    BalanceUnchanged => (daily_pnl = args.pre_pnl /\ SyncAgainChangesNothing)

\* C14 amended: sync_from_account(b) repeated with the same b changes nothing
\* (n calls have the effect of one); a call with an unchanged balance leaves
\* daily_pnl unchanged provided daily_pnl still is what the previous sync left
\* (0 before the first call), and otherwise resets it to b - baseline.
C14_SyncIdempotent ==
    op = "sync_from_account" =>
        /\ SyncAgainChangesNothing
        /\ (args.pre_synced = NoneVal /\ args.pre_pnl = 0) => daily_pnl = args.pre_pnl
        /\ (args.pre_synced = Some(args.balance)
               /\ args.pre_pnl = args.pre_synced[1] - args.pre_start[1]) => daily_pnl = args.pre_pnl
        /\ BalanceUnchanged => daily_pnl = args.balance - start_balance[1]

\* C14 witness: a repeated sync with the balance 50 below the baseline
C14_Witness ==
    /\ op = "sync_from_account"
    /\ args.pre_synced = Some(950) /\ args.balance = 950
    /\ args.pre_start = Some(1000)
    /\ args.pre_pnl = -50 /\ daily_pnl = -50

\* the entries of h are consecutively numbered: they are the Len(h) most
\* recent _record_signal calls, oldest first
MostRecentRecords(h) == \A i \in 1..(Len(h) - 1) : h[i + 1].seq = h[i].seq + 1

\* C15: the signal history holds at most 500 entries, which are exactly the
\* most recently recorded ones (the 501st record evicts the oldest), and
\* get_recent_signals(limit) returns the min(limit, size) most recent entries,
\* newest first.
C15_HistoryBound ==
    /\ Len(signal_history) <= 500
    /\ MostRecentRecords(signal_history)
    /\ (op = "generate_signal" /\ ret.emitted) =>
          /\ Len(signal_history) = Min(Len(args.pre_history) + 1, 500)
          /\ signal_history[Len(signal_history)].seq =
                (IF args.pre_history = <<>> THEN 1
                 ELSE args.pre_history[Len(args.pre_history)].seq + 1)
          /\ Len(args.pre_history) = 500 => signal_history[1] = args.pre_history[2]
    /\ op = "get_recent_signals" =>
          /\ Len(ret.signals) = Min(args.limit, Len(signal_history))
          /\ \A i \in 1..Len(ret.signals) :
                ret.signals[i] = signal_history[Len(signal_history) + 1 - i]

\* the history before the last generate_signal call, less what the cap evicts
\* when one entry is added
KeptOnAppend(h) == IF Len(h) < 500 THEN h ELSE SubSeq(h, Len(h) - 498, Len(h))

\* C16: a generate_signal call that returns a signal appends exactly one
\* entry, describing that signal (symbol, direction, final confidence,
\* strategy, prices, regime), to the history; a call that returns none leaves
\* the history unchanged.
C16_RecordsWhatItReturns ==
    op = "generate_signal" =>
        IF ret.signal # NoneVal
        THEN LET n == Len(signal_history)
                 e == signal_history[n]
                 sig == ret.signal[1]
             IN  /\ n = Len(KeptOnAppend(args.pre_history)) + 1
                 /\ SubSeq(signal_history, 1, n - 1) = KeptOnAppend(args.pre_history)
                 /\ e.symbol = args.symbol /\ sig.symbol = args.symbol
                 /\ e.direction = sig.direction /\ e.direction = ret.direction
                 /\ e.confidence = sig.confidence
                 /\ e.confidence = <<ret.aggregated[1].conf_num, ret.aggregated[1].conf_den>>
                 /\ e.strategy = sig.strategy_name
                 /\ e.prices = sig.prices
                 /\ e.regime = args.market.regime
        ELSE signal_history = args.pre_history

\* C16 witness: a returned SELL signal in the HIGH_VOL regime, recorded
C16_Witness ==
    /\ op = "generate_signal"
    /\ ret.signal # NoneVal /\ ret.direction = "SELL"
    /\ args.market.regime = "HIGH_VOL"
    /\ Len(signal_history) = Len(args.pre_history) + 1
    /\ signal_history[Len(signal_history)].direction = "SELL"

\* C17: generate_signal returns no signal when the tick is absent or ask <= bid.
C17_NoSignalWithoutSpread ==
    (op = "generate_signal"
        /\ (args.market.tick = NoneVal \/ args.market.tick[1].ask <= args.market.tick[1].bid)) =>
        ret.signal = NoneVal

\* C18: a returned BUY has EMA(8) > EMA(21) on the latest M5 bar and a returned
\* SELL has EMA(8) < EMA(21); with equal EMAs or fewer than 25 M5 bars no
\* signal is returned.
C18_TrendAgreement ==
    op = "generate_signal" =>
        /\ (ret.signal # NoneVal /\ ret.signal[1].direction = "BUY") =>
              args.market.m5.fast > args.market.m5.slow
        /\ (ret.signal # NoneVal /\ ret.signal[1].direction = "SELL") =>
              args.market.m5.fast < args.market.m5.slow
        /\ (args.market.m5.fast = args.market.m5.slow \/ args.market.m5.len < 25) =>
              ret.signal = NoneVal

\* C18 witness: a SELL signal returned with the fast EMA below the slow one
C18_Witness ==
    /\ op = "generate_signal"
    /\ ret.signal # NoneVal /\ ret.signal[1].direction = "SELL"
    /\ args.market.m5.fast < args.market.m5.slow /\ args.market.m5.len >= 25

\* the supporters of direction d in the last generate_signal call, by position
SupporterSet(d) ==
    {i \in 1..Len(StrategyNames) : strategy_enabled[i] /\ args.market.outputs[i] = d}
TableWeight(i) == get_strategy_weights(args.market.regime)[StrategyNames[i]]
\* sum over the supporters i of d of w(i) x conf(i), and of w(i)
WeightedSum(d) ==
    LET term(i) == IF i \in SupporterSet(d)
                   THEN TableWeight(i) * strategy_confidence(StrategyNames[i]) ELSE 0
    IN  term(1) + term(2) + term(3) + term(4)
WeightSum(d) ==
    LET term(i) == IF i \in SupporterSet(d) THEN TableWeight(i) ELSE 0
    IN  term(1) + term(2) + term(3) + term(4)

\* C19: for the winning direction with supporter set S the aggregated
\* confidence is (sum of w(s) x conf(s)) / (sum of w(s)) over S with the
\* regime's weights, the direction and prices are those of a supporter in S
\* of highest confidence, and a returned signal carries exactly these.
C19_WeightedConfidence ==
    (op = "generate_signal" /\ ret.aggregated # NoneVal) =>
        LET c == ret.aggregated[1]
            d == ret.confluence
            S == SupporterSet(d)
        IN  /\ d \in Directions
            /\ c.conf_num * WeightSum(d) = WeightedSum(d) * c.conf_den
            /\ c.direction = d
            /\ c.final.prices \in S
            /\ c.final.strategy_name = StrategyNames[c.final.prices]
            /\ \A i \in S : strategy_confidence(StrategyNames[i]) <= c.final.confidence
            /\ ret.signal # NoneVal =>
                  /\ ret.signal[1].confidence[1] * WeightSum(d)
                        = WeightedSum(d) * ret.signal[1].confidence[2]
                  /\ ret.signal[1].direction = d
                  /\ ret.signal[1].prices = c.final.prices

\* C19 witness: three BUY supporters of different confidence and weight
\* against one SELL candidate
C19_Witness ==
    /\ op = "generate_signal"
    /\ ret.aggregated # NoneVal /\ ret.confluence = "BUY"
    /\ Cardinality(SupporterSet("BUY")) = 3 /\ Cardinality(SupporterSet("SELL")) = 1
    /\ args.market.outputs[1] = "SELL"
    /\ ret.aggregated[1].final.strategy_name = "bollinger_squeeze"

\* C20: approve_trade approves gold only if fewer than 2 positions are open in
\* silver, and silver only if fewer than 2 are open in gold; for any other
\* instrument the correlated-exposure rule never rejects.
C20_CorrelationCap ==
    op = "approve_trade" =>
        /\ (ret.approved /\ args.symbol \in {"XAUUSDm", "XAGUSDm"}) => args.b.other_open < 2
        /\ args.symbol \notin {"XAUUSDm", "XAGUSDm"} => ret.reason # "Correlated exposure limit"

\* stop distances compared with the one of the last calculate_lot_size call:
\* the ones explored and the forty that follow it
WiderStops == SlPoints \cup {args.sl_points + k : k \in 0..40}
\* the lot the same call would have returned for another stop distance or
\* another configured risk percentage
LotAtStop(d) == calculate_lot_size(settings, args.equity, d, args.regime, args.symbol_info)
LotAtRisk(p) ==
    calculate_lot_size([settings EXCEPT !.MAX_RISK_PER_TRADE_PERCENT = p],
                       args.equity, args.sl_points, args.regime, args.symbol_info)

\* C21: for fixed equity, regime and instrument, the lot does not grow when
\* the (positive) stop distance grows, and does not shrink when the
\* max-risk-per-trade percentage grows.
C21_LotMonotone ==
    op = "calculate_lot_size" =>
        /\ \A d \in WiderStops :
              (0 < args.sl_points /\ args.sl_points <= d) => ret.lot >= LotAtStop(d)
        /\ \A p \in RiskPercents :
              settings.MAX_RISK_PER_TRADE_PERCENT <= p => ret.lot <= LotAtRisk(p)

\* C21 witness: a sized lot that is strictly larger than the lot for a wider
\* stop and strictly smaller than the lot for a larger risk percentage
C21_Witness ==
    /\ LotIsSized
    /\ \E d \in WiderStops : args.sl_points < d /\ ret.lot > LotAtStop(d) /\ LotAtStop(d) > LotMin
    /\ \E p \in RiskPercents : settings.MAX_RISK_PER_TRADE_PERCENT < p /\ ret.lot < LotAtRisk(p)

\* every order_send in a sequence of terminal calls comes after an order_check
SendAfterCheck(calls) ==
    \A i \in 1..Len(calls) :
        calls[i] = "order_send" => \E j \in 1..(i - 1) : calls[j] = "order_check"

\* C22: close_position and close_all_positions pass a close request to
\* order_send only after order_check has validated that request.
C22_CloseSendOnlyAfterCheck ==
    /\ op = "close_position" => SendAfterCheck(ret.calls)
    /\ op = "close_all_positions" =>
          \A i \in 1..Len(ret.results) : SendAfterCheck(ret.results[i].calls)

\* the positions that are open during the last close_all_positions call
OpenAtCall == matching_positions(args.env.open, args.symbol)

\* C23: close_all_positions returns an empty list when no position is open,
\* and otherwise one outcome per open position, in listing order, whether
\* or not an earlier close failed.
C23_OneOutcomePerPosition ==
    op = "close_all_positions" =>
        /\ Len(ret.results) = Len(OpenAtCall)
        /\ \A i \in 1..Len(ret.results) :
              ret.results[i].request # NoneVal => ret.results[i].request[1].position = OpenAtCall[i].ticket

\* the validations of an order, in the order the claim lists them, and the
\* message each reports
ValidationMessages ==
    <<"MT5 not connected", "Symbol not found", "Symbol not tradeable", "Invalid lot size",
      "No tick data">>
\* the validations the last execute_market_order call fails; the instrument
\* validations are about a known instrument
InvalidAt(k) ==
    CASE k = 1 -> ~args.env.connected
      [] k = 2 -> args.env.symbol_info = NoneVal
      [] k = 3 -> args.env.symbol_info # NoneVal /\ ~OrderInfo.trade_allowed
      [] k = 4 -> args.env.symbol_info # NoneVal
                    /\ normalize_volume(settings, OrderInfo, args.lot_size) <= 0
      [] k = 5 -> ~args.env.tick
InvalidSet == {k \in 1..Len(ValidationMessages) : InvalidAt(k)}
FirstInvalid == CHOOSE k \in InvalidSet : \A j \in InvalidSet : k <= j

\* C24: an order that fails a validation (not connected, unknown instrument,
\* not tradeable, normalized lot <= 0, missing tick) is answered with
\* success = false and the message of the first validation it fails, in
\* that order, and neither order_check nor order_send is called.
C24_ValidationFailures ==
    (op = "execute_market_order" /\ InvalidSet # {}) =>
        /\ ~ret.success
        /\ ret.message = ValidationMessages[FirstInvalid]
        /\ ~InSeq("order_check", ret.calls)
        /\ ~InSeq("order_send", ret.calls)

\* C24 witness: an order for a known instrument that fails the last three
\* validations at once and is answered with the message of the first of them
C24_Witness ==
    /\ op = "execute_market_order"
    /\ InvalidSet = {3, 4, 5}
    /\ ret.message = "Symbol not tradeable"
    /\ ~ret.success

\* the signal loop is in a cycle or will start one when its sleep ends
LoopAlive == signal_task.pc \notin {"failed", "cancelled"}

\* C25: a failure inside one decision cycle does not stop the periodic signal
\* loop: once a cycle has failed, the loop eventually runs again (is back in
\* a cycle or waiting for the next one), unless the application is shut down.
C25_LoopSurvivesFailure == (signal_task.pc = "failed") ~> (shut_down \/ LoopAlive)

\* where a loop is between two iterations: asleep, or not yet started
BetweenIterations == {"none", "waiting"}

\* C26: on shutdown each loop finishes the iteration in progress: no task is
\* cancelled part-way through an iteration, and no generate_signal call is
\* still running when the connector is shut down.
C26_ShutdownWaitsForIteration ==
    shut_down =>
        /\ signal_task.cancelled_at \in BetweenIterations
        /\ account_task.cancelled_at \in BetweenIterations
        /\ workers = {}

\* C27: at no time are two generate_signal calls for the same instrument in
\* progress, nor two mutations of the signal history (an append whose
\* truncation is still to come).
C27_OneCallPerInstrument ==
    \A w1 \in workers, w2 \in workers :
        w1 # w2 => /\ w1.symbol # w2.symbol
                   /\ ~(w1.pc \in {"appended", "sliced"} /\ w2.pc \in {"appended", "sliced"})

\* a broker call is blocked: on the event-loop thread, or in a worker thread
LoopInBrokerCall ==
    \/ signal_task.pc = "account_info"
    \/ account_task.pc = "account_info"
    \/ execute_task.pc = "account_info"
BrokerCallInFlight == LoopInBrokerCall \/ workers # {}

\* C28: while a broker call is blocked the event loop can serve a status
\* query (the guard of RootStatus holds).
C28_BrokerCallsOffLoop ==
    (BrokerCallInFlight /\ ~shut_down) => event_loop = NoneVal

\* C29: nothing changes daily_pnl inside an approve_trade call between its
\* read of daily_pnl and its write of is_paused: while the signal loop or the
\* /execute handler is between the two, daily_pnl is the value it read and
\* no other coroutine holds or can take the event-loop thread.
C29_LossCheckIsAtomic ==
    /\ signal_task.pc = "approve_trade" =>
          (signal_task.pnl_read = daily_pnl /\ event_loop = Some("signal"))
    /\ execute_task.pc = "approve_trade" =>
          (execute_task.pnl_read = daily_pnl /\ event_loop = Some("execute"))

\* C29 witness: the signal loop is inside approve_trade, having read a
\* daily_pnl at the loss limit that sync_from_account wrote, while the
\* account loop is due for its next sync and a /execute request is waiting
C29_Witness ==
    /\ signal_task.pc = "approve_trade"
    /\ signal_task.pnl_read = -50 /\ signal_task.equity = 1000
    /\ ~is_paused
    /\ account_task.pc = "waiting"
    /\ execute_task.pc = "none"
    /\ synced_balance # NoneVal

\* C30: no BUY or SELL result of a strategy has its stop-loss and its
\* take-profit both equal to the entry price, whatever the ATR and the
\* parameter overrides.
C30_StopsNotDegenerate ==
    (op = "strategy_signal" /\ ret.direction \in Directions) =>
        ~(ret.stop_loss = ret.entry_price /\ ret.take_profit = ret.entry_price)

\* position of a strategy in StrategyNames
strategy_index(name) == CHOOSE i \in 1..Len(StrategyNames) : StrategyNames[i] = name

\* C31: the parameters a strategy evaluation runs with (those the strategy
\* object holds once it has run) are the strategy's defaults overlaid with
\* the override stored for it at that time; a key the current override
\* omits has its default value again.
C31_ParamsAreDefaultsOverlaid ==
    op = "strategy_signal" =>
        LET i == strategy_index(args.name) IN
        strategy_cache[i] = effective_params(default_params(args.name), strategy_params[i])

\* the trailing window of the series of a detect_regime call, the number of
\* its values strictly below the latest one, and its size
RankWindow ==
    IF Len(args.series) > LOOKBACK
    THEN SubSeq(args.series, Len(args.series) - LOOKBACK + 1, Len(args.series))
    ELSE args.series
RankBelow ==
    Cardinality({i \in 1..Len(RankWindow) : RankWindow[i] < args.series[Len(args.series)]})
RankSize == Len(RankWindow)

\* C32: detect_regime classifies by the percentile rank r = RankBelow /
\* RankSize of the latest ATR value in the trailing window: r < 0.25 gives
\* LOW_VOL, 0.25 <= r < 0.75 NORMAL, 0.75 <= r < 0.95 HIGH_VOL, r >= 0.95
\* EXTREME; an empty series gives NORMAL.
C32_RegimeByRank ==
    op = "detect_regime" =>
        IF args.series = <<>> THEN ret.regime = "NORMAL"
        ELSE /\ RankSize <= LOOKBACK
             /\ (4 * RankBelow < RankSize) <=> ret.regime = "LOW_VOL"
             /\ (4 * RankBelow >= RankSize /\ 4 * RankBelow < 3 * RankSize) <=> ret.regime = "NORMAL"
             /\ (4 * RankBelow >= 3 * RankSize /\ 20 * RankBelow < 19 * RankSize)
                    <=> ret.regime = "HIGH_VOL"
             /\ (20 * RankBelow >= 19 * RankSize) <=> ret.regime = "EXTREME"

\* an EXTREME rank inside a window that the lookback cut from a longer series
C32_Witness ==
    /\ op = "detect_regime"
    /\ Len(args.series) > LOOKBACK
    /\ 20 * RankBelow >= 19 * RankSize
    /\ ret.regime = "EXTREME"

\* the rank of a detect_regime call is exactly num/den
RankIs(num, den) ==
    op = "detect_regime" /\ args.series # <<>> /\ den * RankBelow = num * RankSize

\* C33 as stated: a rank equal to a threshold is classified into the lower
\* of the two adjacent regimes.
C33_BoundaryInLowerBucket ==
    /\ RankIs(1, 4) => ret.regime = "LOW_VOL"
    /\ RankIs(3, 4) => ret.regime = "NORMAL"
    /\ RankIs(19, 20) => ret.regime = "HIGH_VOL"

\* C33 as the code has it: a rank equal to a threshold is classified into
\* the upper of the two adjacent regimes (0.25 NORMAL, 0.75 HIGH_VOL, 0.95
\* EXTREME).
C33_BoundaryInUpperBucket ==
    /\ RankIs(1, 4) => ret.regime = "NORMAL"
    /\ RankIs(3, 4) => ret.regime = "HIGH_VOL"
    /\ RankIs(19, 20) => ret.regime = "EXTREME"

\* a rank of exactly 0.95
C33_Witness == RankIs(19, 20) /\ ret.regime = "EXTREME"

\* the call just made saw bars whose regime is EXTREME and strategy outputs
\* that give a candidate in any regime in which the strategies are run
ExtremeEvaluation ==
    /\ op = "generate_signal"
    /\ args.market.bars
    /\ args.market.regime = "EXTREME"
    /\ collect_signals(args.symbol, args.market.outputs, strategy_enabled, 1) # <<>>

\* C34: skipping an EXTREME evaluation is a policy of the configuration:
\* whenever generate_signal returned no signal on account of an EXTREME
\* regime, there is a configuration under which the same evaluation runs the
\* strategies (reaches the confluence).
C34_ExtremeSkipIsPolicy ==
    (ExtremeEvaluation /\ ret.confluence = "skipped") =>
        \E cfg \in SignalConfigs :
            generate_signal_under(cfg, strategy_enabled, args.pre_history, args.symbol,
                                  args.market).result.confluence # "skipped"

\* _signal_loop calls execute_market_order in this step
OrderSubmitted == signal_task.pc = "approve_trade" /\ signal_task'.pc = "broadcast_result"

\* C35: once disarm(), set_paused(True) or set_running(False) has completed
\* the signal loop submits no market order until the bot is armed, unpaused
\* and running again: every order of the loop is submitted while the status
\* is running, not paused and armed.
C35_ControlsBeforeNextOrder ==
    [][OrderSubmitted =>
          (bot_status.running /\ ~bot_status.paused /\ bot_status.armed)]_vars

\* the history entries of an instrument
EntriesOf(symbol) == {i \in 1..Len(signal_history) : signal_history[i].symbol = symbol}

\* C36: while the bars and the tick of an instrument are unchanged, the
\* signal loop submits at most one market order for it and the history has
\* at most one entry for it.
C36_OneOrderPerSignal ==
    \A i \in 1..Len(SymbolList) :
        /\ loop_orders[i] <= 1
        /\ Cardinality(EntriesOf(SymbolList[i])) <= 1

\* C37: a signal that generate_signal returns is in the signal history when
\* the call returns (histories stay far below the 500-entry bound here).
C37_ReturnedSignalRecorded ==
    [][\A w \in workers :
          (w.pc = "sliced" /\ w \notin workers') => InSeq(w.entry[1], signal_history')]_vars

\* the enabled strategies whose output is the direction of the returned signal
WinningSupporters ==
    {StrategyNames[i] : i \in {j \in 1..Len(StrategyNames) :
                                  strategy_enabled[j] /\ args.market.outputs[j] = ret.direction}}

\* C38: generate_signal returns a signal only when the supporters of the
\* winning direction are exactly ema_crossover and bollinger_squeeze, and the
\* returned confidence is then exactly 0.7; so none is returned while either
\* of the two is disabled, nor when a third enabled strategy agrees.
C38_OnlyEmaWithBollinger ==
    op = "generate_signal" =>
        /\ ret.emitted =>
              /\ WinningSupporters = {"ema_crossover", "bollinger_squeeze"}
              /\ ret.signal[1].confidence[1] = MIN_CONFLUENCE_CONFIDENCE * ret.signal[1].confidence[2]
        /\ (~strategy_enabled[strategy_index("ema_crossover")]
              \/ ~strategy_enabled[strategy_index("bollinger_squeeze")]) => ~ret.emitted

\* C38 witness: a signal is returned on ema_crossover and bollinger_squeeze
\* while rsi_divergence, which is disabled, gives the same direction
C38_Witness ==
    /\ op = "generate_signal"
    /\ ret.emitted
    /\ WinningSupporters = {"ema_crossover", "bollinger_squeeze"}
    /\ ~strategy_enabled[strategy_index("rsi_divergence")]
    /\ args.market.outputs[strategy_index("rsi_divergence")] = ret.direction

\* C39: approve_trade approves only if the terminal answered the position
\* listing with fewer than max_open_positions positions and, for gold and
\* silver, answered the listing of the correlated instrument with fewer than
\* 2; without an answer the trade is not approved.
C39_ApprovedOnlyWithCounts ==
    (op = "approve_trade" /\ ret.approved) =>
        /\ args.b.positions # NoneVal
        /\ IF args.b.positions = NoneVal THEN FALSE ELSE args.b.positions[1] < MAX_OPEN_POSITIONS
        /\ args.symbol \in {"XAUUSDm", "XAGUSDm"} =>
              IF args.b.other = NoneVal THEN FALSE ELSE args.b.other[1] < 2

\* C40: get_recent_signals(limit) returns at most limit entries for every
\* limit >= 0 (none for limit = 0), and never more than 500.
C40_AtMostLimitEntries ==
    (op = "get_recent_signals" /\ args.limit >= 0) =>
        /\ Len(ret.signals) <= args.limit
        /\ Len(ret.signals) <= HISTORY_LIMIT
====
